---- MODULE Spec2Model ----
(***************************************************************************)
(* A model of the decision core of the XAUUSD trading agent:               *)
(*   - Strategy.check_signal            (src/strategy.py)                  *)
(*   - RiskManager                      (src/risk_manager.py)              *)
(*   - BacktestEngine                   (src/backtest.py)                  *)
(*                                                                         *)
(* Numbers.  The program computes with floats; the model computes with     *)
(* exact integers in fixed units:                                          *)
(*   risk percent      : hundredths of a percent   (0.30 %  -> 30)         *)
(*   ATR               : thousandths of a dollar   (1.234   -> 1234)       *)
(*   ATR multipliers   : tenths                    (2.0     -> 20)         *)
(*   prices, distances : cents                     (3.50    -> 350)        *)
(*   lots              : thousandths of a lot      (0.01    -> 10)         *)
(* round(x, 2) is Python's round-half-even on the exact value.  NaN is the *)
(* out-of-band integer NaN.                                                *)
(***************************************************************************)
EXTENDS Integers, Sequences, FiniteSets, TLC

VARIABLES
    cfg,        \* the module `config` as the evaluator reads it (getattr defaults applied)
    sig_pc,     \* "ready" before the call of check_signal, "done" after it
    sig_in,     \* the facts about the last closed bar that check_signal was called with
    result,     \* the dict returned by check_signal
    lot_in,     \* the arguments of the last call of calculate_lot_size
    lot_size,   \* the lot size it returned, in thousandths of a lot
    position,   \* a live position as get_open_positions reports it
    symbol_info,\* the instrument metadata the live position is managed with
    trail_result, \* the dict returned by the last check_trailing_stop
    bt_pc,      \* where BacktestEngine is: "created", "loop" (inside run), "done", "aborted"
    simulated_sentiment, \* the engine's simulated sentiment adjustments
    bar_count,  \* len(df) of the frame given to run
    i,          \* the index of the bar the loop of run handles next
    balance,    \* self.balance, in thousandths of a dollar
    equity_curve, \* self.equity_curve
    trades,     \* self.trades, the ordered trade log
    open_trade, \* self.open_trade
    metrics,    \* the dict run returns
    last_close, \* the close of the bar the loop of run handled last
    be_moves,   \* history: how often the stop of the open trade was moved to break-even
    call,       \* the arguments of the last call of a pure method (no state of its own)
    ret,        \* what that call returned
    positions,  \* the broker's open positions, as get_open_positions lists them
    mods,       \* the modify_trade calls of the last cycle of the agent
    tick,       \* how far the last cycle of the agent went, and what it handed to the broker
    last_signal_time \* TradingAgent.last_signal_time

sigvars == <<cfg, sig_pc, sig_in, result>>

lotvars == <<lot_in, lot_size>>

livevars == <<position, symbol_info, trail_result>>

btvars == <<bt_pc, simulated_sentiment, bar_count, i, balance, equity_curve, trades,
            open_trade, metrics, last_close, be_moves>>

callvars == <<call, ret>>

agentvars == <<positions, mods, tick, last_signal_time>>

vars == <<cfg, sig_pc, sig_in, result, lot_in, lot_size, position, symbol_info, trail_result,
          bt_pc, simulated_sentiment, bar_count, i, balance, equity_curve, trades,
          open_trade, metrics, last_close, be_moves, call, ret,
          positions, mods, tick, last_signal_time>>

----------------------------------------------------------------------------
(* Arithmetic helpers *)

NaN == -1000000

IsNaN(x) == x = NaN

\* "the argument was not passed" / "the key is missing" for a numeric argument
None == -2000000

Max(a, b) == IF a >= b THEN a ELSE b

Min(a, b) == IF a <= b THEN a ELSE b

\* floor(n / d) for d > 0 and any integer n
FloorDiv(n, d) == n \div d

\* Python's round(): the integer nearest to n/d (d > 0), a tie going to the even one
RoundHalfEven(n, d) ==
    LET q == FloorDiv(n, d)
        r == n - q * d
    IN  IF 2 * r < d THEN q
        ELSE IF 2 * r > d THEN q + 1
        ELSE IF q % 2 = 0 THEN q ELSE q + 1

----------------------------------------------------------------------------
(* config.py *)

EMA_SLOW == 50
EMA_200_PERIOD == 200
RISK_PERCENT == 50
MIN_CONFLUENCES == 4
RSI_LOWER == 30
RSI_UPPER == 70
ADX_MIN_THRESHOLD == 20
ATR_SL_MULTIPLIER == 20
ATR_TP_MULTIPLIER == 50
ATR_MAX_MULTIPLIER == 25
MTF_EMA_SLOW == 50
SENTIMENT_MIN_CONF_MIXED == 5

\* the table with the 6-confluence tier mistyped as 0.06
RISK_BY_CONFLUENCES_Dip == (3 :> 15) @@ (4 :> 30) @@ (5 :> 50) @@ (6 :> 6) @@ (7 :> 75)

\* RISK_BY_CONFLUENCES: confluence count -> risk percent
RISK_BY_CONFLUENCES == (3 :> 15) @@ (4 :> 30) @@ (5 :> 50) @@ (6 :> 60) @@ (7 :> 75)

\* getattr(config, 'RISK_BY_CONFLUENCES', {5: config.RISK_PERCENT}): the fallback table
DefaultRiskMap == (5 :> RISK_PERCENT)

\* the table with the tiers of the five base confluences only (no tier for the
\* optional sixth and seventh)
RiskMapBase5 == [k \in 3..5 |-> RISK_BY_CONFLUENCES[k]]

\* config.py as committed
ConfigAsShipped ==
    [ EMA_200_ENABLED |-> TRUE, ADX_ENABLED |-> TRUE, MACD_ENABLED |-> TRUE,
      MTF_ENABLED |-> TRUE, ATR_VOLATILITY_FILTER |-> TRUE, USE_DYNAMIC_SL_TP |-> TRUE,
      SENTIMENT_AS_CONFLUENCE |-> FALSE, TIERED_RISK_ENABLED |-> TRUE,
      MIN_CONFLUENCES |-> MIN_CONFLUENCES, RISK_BY_CONFLUENCES |-> RISK_BY_CONFLUENCES ]

\* a config module that sets none of the optional attributes: every getattr default
ConfigBare ==
    [ EMA_200_ENABLED |-> FALSE, ADX_ENABLED |-> FALSE, MACD_ENABLED |-> FALSE,
      MTF_ENABLED |-> FALSE, ATR_VOLATILITY_FILTER |-> FALSE, USE_DYNAMIC_SL_TP |-> FALSE,
      SENTIMENT_AS_CONFLUENCE |-> FALSE, TIERED_RISK_ENABLED |-> FALSE,
      MIN_CONFLUENCES |-> 3, RISK_BY_CONFLUENCES |-> DefaultRiskMap ]

\* the configurations the evaluator is run under: the shipped one, the bare one,
\* and the shipped one with a single setting changed
Configs ==
    { ConfigAsShipped,
      ConfigBare,
      [ConfigAsShipped EXCEPT !.TIERED_RISK_ENABLED = FALSE],
      [ConfigAsShipped EXCEPT !.SENTIMENT_AS_CONFLUENCE = TRUE],
      [ConfigAsShipped EXCEPT !.RISK_BY_CONFLUENCES = DefaultRiskMap],
      [ConfigAsShipped EXCEPT !.RISK_BY_CONFLUENCES = RiskMapBase5],
      [ConfigBare EXCEPT !.TIERED_RISK_ENABLED = TRUE] }

----------------------------------------------------------------------------
(* Strategy.check_signal and the helpers it calls (src/strategy.py) *)

\* the value the code writes as None for atr_levels
NoAtrLevels == [present |-> FALSE, sl_distance |-> 0, tp_distance |-> 0]

\* the warm-up check without the EMA 200 extension
MinCandles_IgnoresEma200(c) == EMA_SLOW + 10

\* len(df) below which check_signal returns no_signal at once
MinCandles(c) ==
    IF c.EMA_200_ENABLED THEN Max(EMA_SLOW + 10, EMA_200_PERIOD + 10) ELSE EMA_SLOW + 10

\* the filter taking an undefined ratio as excessive
check_volatility_filter_UndefinedRejects(c, atr, atr_sma_50) ==
    IF ~c.ATR_VOLATILITY_FILTER THEN TRUE
    ELSE IF IsNaN(atr) \/ IsNaN(atr_sma_50) \/ atr_sma_50 = 0 THEN FALSE
    ELSE IF atr_sma_50 > 0 THEN ~(10 * atr > ATR_MAX_MULTIPLIER * atr_sma_50)
    ELSE ~(10 * atr < ATR_MAX_MULTIPLIER * atr_sma_50)

\* check_volatility_filter: TRUE = acceptable.  atr / atr_sma_50 > ATR_MAX_MULTIPLIER,
\* with the multiplier in tenths and atr_sma_50 > 0 or < 0 handled as the division does
check_volatility_filter(c, atr, atr_sma_50) ==
    IF ~c.ATR_VOLATILITY_FILTER THEN TRUE
    ELSE IF IsNaN(atr) \/ IsNaN(atr_sma_50) \/ atr_sma_50 = 0 THEN TRUE
    ELSE IF atr_sma_50 > 0 THEN ~(10 * atr > ATR_MAX_MULTIPLIER * atr_sma_50)
    ELSE ~(10 * atr < ATR_MAX_MULTIPLIER * atr_sma_50)

\* get_dynamic_sl_tp: distances in cents from the ATR in thousandths
get_dynamic_sl_tp(c, atr, atr_sl_mult, atr_tp_mult) ==
    IF ~c.USE_DYNAMIC_SL_TP THEN NoAtrLevels
    ELSE IF IsNaN(atr) \/ atr <= 0 THEN NoAtrLevels
    ELSE [present |-> TRUE,
          sl_distance |-> RoundHalfEven(atr * atr_sl_mult, 100),
          tp_distance |-> RoundHalfEven(atr * atr_tp_mult, 100)]

\* check_higher_timeframe_trend on a frame given by its length and the two EMAs
\* of its last closed bar; None is the frame with present = FALSE
check_higher_timeframe_trend(df_htf) ==
    IF ~df_htf.present \/ df_htf.len = 0 THEN "UNKNOWN"
    ELSE IF df_htf.len < MTF_EMA_SLOW + 5 THEN "UNKNOWN"
    ELSE IF IsNaN(df_htf.ema_fast) \/ IsNaN(df_htf.ema_slow) THEN "UNKNOWN"
    ELSE IF df_htf.ema_fast > df_htf.ema_slow THEN "BULLISH" ELSE "BEARISH"

\* sum(conditions.values())
CountTrue(conds) == Cardinality({k \in DOMAIN conds : conds[k]})

SetMax(S) == CHOOSE x \in S : \A y \in S : y <= x

\* prices.diff(): undefined at the first row
Diff(prices, t) == IF t = 1 THEN NaN ELSE prices[t] - prices[t - 1]

\* delta.where(delta > 0, 0.0): a comparison with NaN is false
Gain(prices, t) ==
    LET delta == Diff(prices, t)
    IN  IF ~IsNaN(delta) /\ delta > 0 THEN delta ELSE 0

\* -delta.where(delta < 0, 0.0)
Loss(prices, t) ==
    LET delta == Diff(prices, t)
    IN  IF ~IsNaN(delta) /\ delta < 0 THEN -delta ELSE 0

RECURSIVE Power(_, _)
Power(b, e) == IF e = 0 THEN 1 ELSE b * Power(b, e - 1)

RECURSIVE EwmSum(_, _, _, _)
\* ewm(com=period - 1).mean() at row t, times its normaliser: the rows weigh
\* (1 - 1/period)^k by age k, here scaled by period^(t-1).  gains tells whether
\* the column is gain or loss.  The normaliser is positive and the same for both
\* columns, so the mean is zero iff this sum is, and rs is the quotient of the sums.
EwmSum(prices, t, period, gains) ==
    LET x == IF gains THEN Gain(prices, t) ELSE Loss(prices, t)
    IN  IF t = 1 THEN x
        ELSE (period - 1) * EwmSum(prices, t - 1, period, gains) + Power(period, t - 1) * x

\* _calculate_rsi without rsi.fillna(100)
calculate_rsi_NoFill(prices, period) ==
    [t \in DOMAIN prices |->
        LET avg_gain == IF t < period THEN NaN ELSE EwmSum(prices, t, period, TRUE)
            avg_loss == IF t < period THEN NaN ELSE EwmSum(prices, t, period, FALSE)
            denominator == IF avg_loss = 0 THEN NaN ELSE avg_loss
            rsi == IF IsNaN(avg_gain) \/ IsNaN(denominator) THEN NaN
                   ELSE 100000 - RoundHalfEven(100000 * denominator, denominator + avg_gain)
        IN  IF IsNaN(rsi) THEN NaN ELSE Max(0, Min(100000, rsi))]

\* _calculate_rsi: the RSI of every row, in thousandths of a point.
\*   rs = avg_gain / avg_loss.replace(0, nan);  100 - 100 / (1 + rs) is
\*   100 - 100 * avg_loss / (avg_loss + avg_gain);  NaN is filled with 100;
\*   min_periods = period leaves the rows before it undefined
calculate_rsi(prices, period) ==
    [t \in DOMAIN prices |->
        LET avg_gain == IF t < period THEN NaN ELSE EwmSum(prices, t, period, TRUE)
            avg_loss == IF t < period THEN NaN ELSE EwmSum(prices, t, period, FALSE)
            denominator == IF avg_loss = 0 THEN NaN ELSE avg_loss
            rsi == IF IsNaN(avg_gain) \/ IsNaN(denominator) THEN NaN
                   ELSE 100000 - RoundHalfEven(100000 * denominator, denominator + avg_gain)
        IN  IF IsNaN(rsi) THEN 100000 ELSE Max(0, Min(100000, rsi))]

\* the fallback taking the lowest tier instead of the closest lower one
TierRisk_LowestTier(risk_map, best_met) ==
    LET direct == IF best_met \in DOMAIN risk_map THEN risk_map[best_met] ELSE 0
        lower  == {level \in DOMAIN risk_map : best_met >= level}
    IN  IF direct > 0 THEN direct
        ELSE IF lower = {} THEN direct
        ELSE risk_map[CHOOSE x \in lower : \A y \in lower : x <= y]

\* lines 757-764: the risk of the count, else of the closest lower tier, else 0
TierRisk(risk_map, best_met) ==
    LET direct == IF best_met \in DOMAIN risk_map THEN risk_map[best_met] ELSE 0
        lower  == {level \in DOMAIN risk_map : best_met >= level}
    IN  IF direct > 0 THEN direct
        ELSE IF lower = {} THEN direct
        ELSE risk_map[SetMax(lower)]

\* lines 696-716: the direction, its count and its conditions
SelectBest(buy_conditions, sell_conditions, eff_min_conf) ==
    LET buy_met  == CountTrue(buy_conditions)
        sell_met == CountTrue(sell_conditions)
    IN  IF buy_conditions.tendencia /\ buy_met >= sell_met
          THEN [signal |-> "BUY", met |-> buy_met, tendencia |-> buy_conditions.tendencia]
        ELSE IF sell_conditions.tendencia /\ sell_met > buy_met
          THEN [signal |-> "SELL", met |-> sell_met, tendencia |-> sell_conditions.tendencia]
        ELSE IF buy_conditions.tendencia /\ buy_met >= eff_min_conf
          THEN [signal |-> "BUY", met |-> buy_met, tendencia |-> buy_conditions.tendencia]
        ELSE IF sell_conditions.tendencia /\ sell_met >= eff_min_conf
          THEN [signal |-> "SELL", met |-> sell_met, tendencia |-> sell_conditions.tendencia]
        ELSE [signal |-> "NONE", met |-> 0, tendencia |-> FALSE]

\* the dict no_signal; its total_confluences is 5 until line 637 overwrites it
NoSignal(total) ==
    [signal |-> "NONE", atr_levels |-> NoAtrLevels, confluences_met |-> 0,
     total_confluences |-> total, risk_percent |-> 0]

\* the keys of a confluence dict: the five base ones, then the optional ones
ConditionKeys(c, in) ==
    {"tendencia", "rsi", "pullback", "liquidity", "fibonacci_ote"}
    \cup (IF c.MACD_ENABLED THEN {"macd_momentum"} ELSE {})
    \cup (IF in.sentiment.present /\ c.SENTIMENT_AS_CONFLUENCE THEN {"sentiment"} ELSE {})

\* the confluence dicts with the SELL trend condition copied from BUY unchanged
Conditions_BullishBothWays(c, in, eff_rsi_lower, eff_rsi_upper, dir) ==
    [k \in ConditionKeys(c, in) |->
        CASE k = "tendencia" -> in.trend = "BULLISH"
          [] k = "rsi" -> (eff_rsi_lower <= in.rsi /\ in.rsi <= eff_rsi_upper)
          [] k = "pullback" -> (IF dir = "BUY" THEN in.pullback_buy ELSE in.pullback_sell)
          [] k = "liquidity" -> (IF dir = "BUY" THEN in.sweep_low ELSE in.sweep_high)
          [] k = "fibonacci_ote" -> (IF dir = "BUY" THEN in.fib_buy ELSE in.fib_sell)
          [] k = "macd_momentum" ->
                (~IsNaN(in.macd_histogram) /\
                 (IF dir = "BUY" THEN in.macd_histogram > 0 ELSE in.macd_histogram < 0))
          [] k = "sentiment" ->
                (IF dir = "BUY" THEN in.sentiment.sentiment_confluence_buy
                 ELSE in.sentiment.sentiment_confluence_sell)]

\* the confluence dict with the sweep columns of the two directions exchanged
Conditions_SweepsExchanged(c, in, eff_rsi_lower, eff_rsi_upper, dir) ==
    [k \in ConditionKeys(c, in) |->
        CASE k = "tendencia" -> in.trend = (IF dir = "BUY" THEN "BULLISH" ELSE "BEARISH")
          [] k = "rsi" -> (eff_rsi_lower <= in.rsi /\ in.rsi <= eff_rsi_upper)
          [] k = "pullback" -> (IF dir = "BUY" THEN in.pullback_buy ELSE in.pullback_sell)
          [] k = "liquidity" -> (IF dir = "BUY" THEN in.sweep_high ELSE in.sweep_low)
          [] k = "fibonacci_ote" -> (IF dir = "BUY" THEN in.fib_buy ELSE in.fib_sell)
          [] k = "macd_momentum" ->
                (~IsNaN(in.macd_histogram) /\
                 (IF dir = "BUY" THEN in.macd_histogram > 0 ELSE in.macd_histogram < 0))
          [] k = "sentiment" ->
                (IF dir = "BUY" THEN in.sentiment.sentiment_confluence_buy
                 ELSE in.sentiment.sentiment_confluence_sell)]

\* lines 645-664 (BUY) and 672-691 (SELL): the confluence dict of one direction
Conditions(c, in, eff_rsi_lower, eff_rsi_upper, dir) ==
    [k \in ConditionKeys(c, in) |->
        CASE k = "tendencia" -> in.trend = (IF dir = "BUY" THEN "BULLISH" ELSE "BEARISH")
          [] k = "rsi" -> (eff_rsi_lower <= in.rsi /\ in.rsi <= eff_rsi_upper)
          [] k = "pullback" -> (IF dir = "BUY" THEN in.pullback_buy ELSE in.pullback_sell)
          [] k = "liquidity" -> (IF dir = "BUY" THEN in.sweep_low ELSE in.sweep_high)
          [] k = "fibonacci_ote" -> (IF dir = "BUY" THEN in.fib_buy ELSE in.fib_sell)
          [] k = "macd_momentum" ->
                (~IsNaN(in.macd_histogram) /\
                 (IF dir = "BUY" THEN in.macd_histogram > 0 ELSE in.macd_histogram < 0))
          [] k = "sentiment" ->
                (IF dir = "BUY" THEN in.sentiment.sentiment_confluence_buy
                 ELSE in.sentiment.sentiment_confluence_sell)]

\* lines 630-635
TotalConfluences(c, in) ==
    5 + (IF c.MACD_ENABLED THEN 1 ELSE 0)
      + (IF in.sentiment.present /\ c.SENTIMENT_AS_CONFLUENCE THEN 1 ELSE 0)

\* lines 586-598: TRUE / FALSE, or "None" when the filter does not apply
PriceAbove200(c, in) ==
    IF c.EMA_200_ENABLED /\ ~IsNaN(in.ema_200)
    THEN (IF in.close > in.ema_200 THEN "True" ELSE "False")
    ELSE "None"

\* lines 610-613: None when the filter is off or no frame was passed
HtfTrend(c, in) ==
    IF c.MTF_ENABLED /\ in.df_htf.present
    THEN check_higher_timeframe_trend(in.df_htf)
    ELSE "None"

\* the minimum without the all-or-nothing mode
RequiredMinimum_AlwaysFloor(c, eff_min_conf, total_confluences) == eff_min_conf

\* lines 741-745: the count a decision must reach
RequiredMinimum(c, eff_min_conf, total_confluences) ==
    IF c.TIERED_RISK_ENABLED THEN eff_min_conf ELSE total_confluences

\* Strategy.check_signal
check_signal(c, in) ==
    LET eff_rsi_lower == IF in.sentiment.present THEN in.sentiment.rsi_lower ELSE RSI_LOWER
        eff_rsi_upper == IF in.sentiment.present THEN in.sentiment.rsi_upper ELSE RSI_UPPER
        eff_atr_sl_mult == IF in.sentiment.present THEN in.sentiment.atr_sl_multiplier
                           ELSE ATR_SL_MULTIPLIER
        eff_atr_tp_mult == IF in.sentiment.present THEN in.sentiment.atr_tp_multiplier
                           ELSE ATR_TP_MULTIPLIER
        eff_min_conf == IF in.sentiment.present THEN in.sentiment.min_confluences
                        ELSE c.MIN_CONFLUENCES
        price_above_200 == PriceAbove200(c, in)
        htf_trend == HtfTrend(c, in)
        total_confluences == TotalConfluences(c, in)
        buy_conditions == Conditions(c, in, eff_rsi_lower, eff_rsi_upper, "BUY")
        sell_conditions == Conditions(c, in, eff_rsi_lower, eff_rsi_upper, "SELL")
        best == SelectBest(buy_conditions, sell_conditions, eff_min_conf)
        required == RequiredMinimum(c, eff_min_conf, total_confluences)
        risk_percent == TierRisk(c.RISK_BY_CONFLUENCES, best.met)
    IN  IF in.nbars < MinCandles(c) THEN NoSignal(5)
        ELSE IF ~check_volatility_filter(c, in.atr, in.atr_sma_50) THEN NoSignal(5)
        ELSE IF c.ADX_ENABLED /\ ~IsNaN(in.adx) /\ in.adx < ADX_MIN_THRESHOLD THEN NoSignal(5)
        ELSE IF ~best.tendencia THEN NoSignal(total_confluences)
        ELSE IF price_above_200 # "None" /\
                ((best.signal = "BUY" /\ price_above_200 = "False") \/
                 (best.signal = "SELL" /\ price_above_200 = "True"))
             THEN NoSignal(total_confluences)
        ELSE IF htf_trend # "None" /\ htf_trend # "UNKNOWN" /\
                ((best.signal = "BUY" /\ htf_trend # "BULLISH") \/
                 (best.signal = "SELL" /\ htf_trend # "BEARISH"))
             THEN NoSignal(total_confluences)
        ELSE IF best.met < required THEN NoSignal(total_confluences)
        ELSE IF risk_percent <= 0 THEN NoSignal(total_confluences)
        ELSE [signal |-> best.signal,
              atr_levels |-> get_dynamic_sl_tp(c, in.atr, eff_atr_sl_mult, eff_atr_tp_mult),
              confluences_met |-> best.met,
              total_confluences |-> total_confluences,
              risk_percent |-> risk_percent]

----------------------------------------------------------------------------
(* The structure detectors of calculate_indicators.  A frame is the sequence of
   its bars, bar t of the model being df.iloc[t - 1]. *)

\* config.py: LIQUIDITY_LOOKBACK
LIQUIDITY_LOOKBACK == 15

\* _detect_sweep_high: the column sweep_high
detect_sweep_high(df) ==
    [t \in DOMAIN df |->
        IF t - 1 < LIQUIDITY_LOOKBACK THEN FALSE
        ELSE LET structural_high ==
                     SetMax({df[j].high : j \in (t - LIQUIDITY_LOOKBACK)..(t - 1)})
             IN  df[t].high > structural_high /\ df[t].close < structural_high]

\* _detect_sweep_low: the column sweep_low
detect_sweep_low(df) ==
    [t \in DOMAIN df |->
        IF t - 1 < LIQUIDITY_LOOKBACK THEN FALSE
        ELSE LET structural_low ==
                     -SetMax({-df[j].low : j \in (t - LIQUIDITY_LOOKBACK)..(t - 1)})
             IN  df[t].low < structural_low /\ df[t].close > structural_low]

----------------------------------------------------------------------------
\* Strategy.__init__: self.fractal_lookback
fractal_lookback == 5

\* the column fractal_high with every tie admitted
detect_fractal_high_TiesAdmitted(df) ==
    [t \in DOMAIN df |->
        IF /\ t - 1 >= fractal_lookback
           /\ t - 1 < Len(df) - fractal_lookback
           /\ \A j \in 1..fractal_lookback :
                 ~(df[t - j].high > df[t].high \/ df[t + j].high > df[t].high)
        THEN df[t].high
        ELSE NaN]

\* _detect_fractal_high: the column fractal_high, the bar's high where a
\* fractal is confirmed and NaN elsewhere
detect_fractal_high(df) ==
    [t \in DOMAIN df |->
        IF /\ t - 1 >= fractal_lookback
           /\ t - 1 < Len(df) - fractal_lookback
           /\ \A j \in 1..fractal_lookback :
                 ~(df[t - j].high >= df[t].high \/ df[t + j].high >= df[t].high)
        THEN df[t].high
        ELSE NaN]

\* _detect_fractal_low: the column fractal_low
detect_fractal_low(df) ==
    [t \in DOMAIN df |->
        IF /\ t - 1 >= fractal_lookback
           /\ t - 1 < Len(df) - fractal_lookback
           /\ \A j \in 1..fractal_lookback :
                 ~(df[t - j].low <= df[t].low \/ df[t + j].low <= df[t].low)
        THEN df[t].low
        ELSE NaN]

----------------------------------------------------------------------------
(* Strategy._check_fibonacci_ote.  Prices in thousandths of a dollar; the
   Fibonacci levels, which carry three more decimals, in millionths. *)

NotInOte == [in_ote |-> FALSE, fib_level |-> None, zone_low |-> None, zone_high |-> None]

\* the zone test without the validation of the temporal order of the fractals
check_fibonacci_ote_NoOrderCheck(swings, current_price, direction) ==
    LET swing_high == swings.swing_high
        swing_low == swings.swing_low
        swing_range == swing_high - swing_low
        fib_618 == IF direction = "BUY" THEN swing_high * 1000 - swing_range * 618
                   ELSE swing_low * 1000 + swing_range * 618
        fib_786 == IF direction = "BUY" THEN swing_high * 1000 - swing_range * 786
                   ELSE swing_low * 1000 + swing_range * 786
        zone_high == IF direction = "BUY" THEN fib_618 ELSE fib_786
        zone_low == IF direction = "BUY" THEN fib_786 ELSE fib_618
        in_ote == zone_low <= current_price * 1000 /\ current_price * 1000 <= zone_high
        fib_level == IF direction = "BUY"
                     THEN RoundHalfEven((swing_high - current_price) * 1000, swing_range)
                     ELSE RoundHalfEven((current_price - swing_low) * 1000, swing_range)
    IN  IF swing_high = None \/ swing_low = None THEN NotInOte
        ELSE IF swing_range <= 0 THEN NotInOte
        ELSE [in_ote |-> in_ote, fib_level |-> fib_level,
              zone_low |-> RoundHalfEven(zone_low, 10000),
              zone_high |-> RoundHalfEven(zone_high, 10000)]

\* the zone test with fib_level measured from the older extreme of the leg
check_fibonacci_ote_FromOlder(swings, current_price, direction) ==
    LET swing_high == swings.swing_high
        swing_low == swings.swing_low
        swing_range == swing_high - swing_low
        fib_618 == IF direction = "BUY" THEN swing_high * 1000 - swing_range * 618
                   ELSE swing_low * 1000 + swing_range * 618
        fib_786 == IF direction = "BUY" THEN swing_high * 1000 - swing_range * 786
                   ELSE swing_low * 1000 + swing_range * 786
        zone_high == IF direction = "BUY" THEN fib_618 ELSE fib_786
        zone_low == IF direction = "BUY" THEN fib_786 ELSE fib_618
        in_ote == zone_low <= current_price * 1000 /\ current_price * 1000 <= zone_high
        fib_level == IF direction = "BUY"
                     THEN RoundHalfEven((current_price - swing_low) * 1000, swing_range)
                     ELSE RoundHalfEven((swing_high - current_price) * 1000, swing_range)
    IN  IF swing_high = None \/ swing_low = None THEN NotInOte
        ELSE IF direction = "BUY" /\ swings.swing_high_idx <= swings.swing_low_idx
             THEN NotInOte
        ELSE IF direction # "BUY" /\ swings.swing_low_idx <= swings.swing_high_idx
             THEN NotInOte
        ELSE IF swing_range <= 0 THEN NotInOte
        ELSE [in_ote |-> in_ote, fib_level |-> fib_level,
              zone_low |-> RoundHalfEven(zone_low, 10000),
              zone_high |-> RoundHalfEven(zone_high, 10000)]

\* swings: what _get_last_swing_points returned; current_price: df.iloc[-2]['close'].
\* Returned: fib_level in thousandths, zone_low and zone_high in cents.
check_fibonacci_ote(swings, current_price, direction) ==
    LET swing_high == swings.swing_high
        swing_low == swings.swing_low
        swing_range == swing_high - swing_low
        \* the two levels of the zone and the price, in millionths
        fib_618 == IF direction = "BUY" THEN swing_high * 1000 - swing_range * 618
                   ELSE swing_low * 1000 + swing_range * 618
        fib_786 == IF direction = "BUY" THEN swing_high * 1000 - swing_range * 786
                   ELSE swing_low * 1000 + swing_range * 786
        zone_high == IF direction = "BUY" THEN fib_618 ELSE fib_786
        zone_low == IF direction = "BUY" THEN fib_786 ELSE fib_618
        in_ote == zone_low <= current_price * 1000 /\ current_price * 1000 <= zone_high
        fib_level == IF direction = "BUY"
                     THEN RoundHalfEven((swing_high - current_price) * 1000, swing_range)
                     ELSE RoundHalfEven((current_price - swing_low) * 1000, swing_range)
    IN  IF swing_high = None \/ swing_low = None THEN NotInOte
        ELSE IF direction = "BUY" /\ swings.swing_high_idx <= swings.swing_low_idx
             THEN NotInOte
        ELSE IF direction # "BUY" /\ swings.swing_low_idx <= swings.swing_high_idx
             THEN NotInOte
        ELSE IF swing_range <= 0 THEN NotInOte
        ELSE [in_ote |-> in_ote, fib_level |-> fib_level,
              zone_low |-> RoundHalfEven(zone_low, 10000),
              zone_high |-> RoundHalfEven(zone_high, 10000)]

----------------------------------------------------------------------------
(* RiskManager (src/risk_manager.py) *)

STOP_LOSS_PIPS == 35
TAKE_PROFIT_PIPS == 90
BREAK_EVEN_PIPS == 25
TRAILING_ACTIVATE_PIPS == 55
TRAILING_STEP_PIPS == 20

\* symbol_info.get(key, default)
Get(info, key, default) == IF key \in DOMAIN info THEN info[key] ELSE default

\* 10^k for k in 0..3
Pow10(k) == CASE k = 0 -> 1 [] k = 1 -> 10 [] k = 2 -> 100 [] k = 3 -> 1000

\* round(x, digits) of a price in thousandths, digits in 0..3
RoundPrice(x, digits) == RoundHalfEven(x, Pow10(3 - digits)) * Pow10(3 - digits)

\* round(lot_size, 2) of a size in thousandths of a lot
RoundLots2(lots) == RoundHalfEven(lots, 10) * 10

\* calculate_lot_size.  bal (the balance) in dollars, risk_percent in hundredths of a
\* percent, sl_distance_price in cents, point in thousandths of a dollar,
\* volumes in thousandths of a lot.  value_per_lot is kept in cents:
\*   lot_size / volume_step = (balance * risk / 10000) / (value_per_lot / 100) / (step / 1000)
calculate_lot_size(bal, info, sl_distance_price, risk_percent) ==
    LET actual_risk == IF risk_percent # None THEN risk_percent ELSE RISK_PERCENT
        point == Get(info, "point", 10)
        contract_size == Get(info, "trade_contract_size", 100)
        value0 == IF sl_distance_price # None
                  THEN sl_distance_price * contract_size
                  ELSE STOP_LOSS_PIPS * point * contract_size
        value_per_lot == IF value0 = 0 THEN STOP_LOSS_PIPS * 100 ELSE value0
        volume_step == Get(info, "volume_step", 10)
        volume_min == Get(info, "volume_min", 10)
        volume_max == Get(info, "volume_max", 100000)
        steps == RoundHalfEven(10 * bal * actual_risk, value_per_lot * volume_step)
    IN  RoundLots2(Min(Max(volume_min, steps * volume_step), volume_max))

\* calculate_sl_tp.  current_price and the returned levels in thousandths of a
\* dollar, the distances of atr_levels in cents, point in thousandths
calculate_sl_tp(order_type, current_price, info, atr_levels) ==
    LET digits == Get(info, "digits", 2)
        point == Get(info, "point", 10)
        sl_distance == IF atr_levels.present THEN atr_levels.sl_distance * 10
                       ELSE STOP_LOSS_PIPS * point * 10
        tp_distance == IF atr_levels.present THEN atr_levels.tp_distance * 10
                       ELSE TAKE_PROFIT_PIPS * point * 10
    IN  IF order_type = "BUY"
        THEN [sl |-> RoundPrice(current_price - sl_distance, digits),
              tp |-> RoundPrice(current_price + tp_distance, digits),
              sl_distance |-> sl_distance]
        ELSE [sl |-> RoundPrice(current_price + sl_distance, digits),
              tp |-> RoundPrice(current_price - tp_distance, digits),
              sl_distance |-> sl_distance]

\* the trailing stop without the comparison against the current stop
check_trailing_stop_NoRatchet(pos, info) ==
    LET point == Get(info, "point", 10)
        digits == Get(info, "digits", 2)
        trail_activate == TRAILING_ACTIVATE_PIPS * point * 10
        trail_step == TRAILING_STEP_PIPS * point * 10
    IN  IF pos.type = "BUY"
        THEN IF pos.current_price >= pos.open_price + trail_activate
             THEN [action |-> "trail",
                   new_sl |-> RoundPrice(pos.current_price - trail_step, digits)]
             ELSE [action |-> "none", new_sl |-> None]
        ELSE IF pos.current_price <= pos.open_price - trail_activate
             THEN [action |-> "trail",
                   new_sl |-> RoundPrice(pos.current_price + trail_step, digits)]
             ELSE [action |-> "none", new_sl |-> None]

\* check_trailing_stop.  Prices in thousandths of a dollar.
check_trailing_stop(pos, info) ==
    LET point == Get(info, "point", 10)
        digits == Get(info, "digits", 2)
        trail_activate == TRAILING_ACTIVATE_PIPS * point * 10
        trail_step == TRAILING_STEP_PIPS * point * 10
        new_sl == IF pos.type = "BUY"
                  THEN RoundPrice(pos.current_price - trail_step, digits)
                  ELSE RoundPrice(pos.current_price + trail_step, digits)
    IN  IF pos.type = "BUY"
        THEN IF pos.current_price >= pos.open_price + trail_activate /\ new_sl > pos.sl
             THEN [action |-> "trail", new_sl |-> new_sl]
             ELSE [action |-> "none", new_sl |-> None]
        ELSE IF pos.current_price <= pos.open_price - trail_activate /\ new_sl < pos.sl
             THEN [action |-> "trail", new_sl |-> new_sl]
             ELSE [action |-> "none", new_sl |-> None]

\* config.py: BREAK_EVEN_SPREAD_BUFFER
BREAK_EVEN_SPREAD_BUFFER == TRUE

\* break-even without the test of the current stop against the open price
check_break_even_Rearms(pos, info) ==
    LET point == Get(info, "point", 10)
        spread == Get(info, "spread", 0) * point
        be_distance == BREAK_EVEN_PIPS * point * 10
        be_buffer == IF BREAK_EVEN_SPREAD_BUFFER THEN spread + point * 10 ELSE point * 10
        digits == Get(info, "digits", 2)
    IN  IF pos.type = "BUY"
        THEN IF pos.current_price >= pos.open_price + be_distance
             THEN [action |-> "move_be",
                   new_sl |-> RoundPrice(pos.open_price + be_buffer, digits)]
             ELSE [action |-> "none", new_sl |-> None]
        ELSE IF pos.current_price <= pos.open_price - be_distance
             THEN [action |-> "move_be",
                   new_sl |-> RoundPrice(pos.open_price - be_buffer, digits)]
             ELSE [action |-> "none", new_sl |-> None]

\* check_break_even.  Prices in thousandths of a dollar, spread in points.
check_break_even(pos, info) ==
    LET point == Get(info, "point", 10)
        spread == Get(info, "spread", 0) * point
        be_distance == BREAK_EVEN_PIPS * point * 10
        be_buffer == IF BREAK_EVEN_SPREAD_BUFFER THEN spread + point * 10 ELSE point * 10
        digits == Get(info, "digits", 2)
    IN  IF pos.type = "BUY"
        THEN IF pos.current_price >= pos.open_price + be_distance /\ pos.sl < pos.open_price
             THEN [action |-> "move_be",
                   new_sl |-> RoundPrice(pos.open_price + be_buffer, digits)]
             ELSE [action |-> "none", new_sl |-> None]
        ELSE IF pos.current_price <= pos.open_price - be_distance /\ pos.sl > pos.open_price
             THEN [action |-> "move_be",
                   new_sl |-> RoundPrice(pos.open_price - be_buffer, digits)]
             ELSE [action |-> "none", new_sl |-> None]

\* config.py: MARGIN_SAFETY_FACTOR = 2.0, in tenths
MARGIN_SAFETY_FACTOR == 20

\* check_margin: FALSE iff free_margin < required_margin * safety_factor
check_margin(free_margin, required_margin) ==
    ~(free_margin * 10 < required_margin * MARGIN_SAFETY_FACTOR)

SYMBOL == "XAUUSD+"

MAX_OPEN_TRADES == 2

\* can_open_trade
can_open_trade(open_positions) ==
    Cardinality({k \in DOMAIN open_positions : open_positions[k].symbol = SYMBOL})
        < MAX_OPEN_TRADES

----------------------------------------------------------------------------
(* TradingAgent (src/agent.py).  A text is the sequence of its characters.
   Prices in thousandths of a dollar, lots in thousandths of a lot, the free
   and the estimated margin in ten-thousandths of a dollar, balances in
   dollars. *)

\* the literal "AI Agent" of _manage_open_positions
TextAIAgent == <<"A", "I", " ", "A", "g", "e", "n", "t">>

\* Python's  marker in text
Contains(text, marker) ==
    \E k \in 0..(Len(text) - Len(marker)) : SubSeq(text, k + 1, k + Len(marker)) = marker

\* str() of a digit
DigitChar(d) ==
    CASE d = 0 -> "0" [] d = 1 -> "1" [] d = 2 -> "2" [] d = 3 -> "3" [] d = 4 -> "4"
      [] d = 5 -> "5" [] d = 6 -> "6" [] d = 7 -> "7" [] d = 8 -> "8" [] d = 9 -> "9"

\* str() of an int in 0..99
FormatInt(n) == IF n < 10 THEN <<DigitChar(n)>> ELSE <<DigitChar(n \div 10), DigitChar(n % 10)>>

\* str() of a risk percent given in hundredths: 30 is "0.3", 75 is "0.75"
FormatRisk(r) ==
    FormatInt(r \div 100) \o <<".">> \o
        (IF r % 10 = 0 THEN <<DigitChar((r % 100) \div 10)>>
         ELSE <<DigitChar((r % 100) \div 10), DigitChar(r % 10)>>)

\* the comment _execute_trade gives its order
OrderComment(decision) ==
    TextAIAgent \o <<" ", "v", "3", " ">>
        \o (IF decision.signal = "BUY" THEN <<"B", "U", "Y">> ELSE <<"S", "E", "L", "L">>)
        \o <<" ">> \o FormatInt(decision.confluences_met) \o <<"/">>
        \o FormatInt(decision.total_confluences)
        \o <<" ", "R">> \o FormatRisk(decision.risk_percent) \o <<"%">>

\* the loop body of _manage_open_positions without the test of the comment
ManageOne_AnyComment(pos, info) ==
    LET be_result == check_break_even(pos, info)
        trail_res == check_trailing_stop(pos, info)
    IN  IF be_result.action = "move_be"
        THEN <<[ticket |-> pos.ticket, sl |-> be_result.new_sl, reason |-> "Break Even",
                comment |-> pos.comment]>>
        ELSE IF trail_res.action = "trail"
        THEN <<[ticket |-> pos.ticket, sl |-> trail_res.new_sl, reason |-> "Trailing Stop",
                comment |-> pos.comment]>>
        ELSE <<>>

\* the loop body of _manage_open_positions without the continue after break-even
ManageOne_NoContinue(pos, info) ==
    LET be_result == check_break_even(pos, info)
        trail_res == check_trailing_stop(pos, info)
    IN  IF ~Contains(pos.comment, TextAIAgent) THEN <<>>
        ELSE (IF be_result.action = "move_be"
              THEN <<[ticket |-> pos.ticket, sl |-> be_result.new_sl, reason |-> "Break Even",
                      comment |-> pos.comment]>>
              ELSE <<>>)
             \o (IF trail_res.action = "trail"
                 THEN <<[ticket |-> pos.ticket, sl |-> trail_res.new_sl,
                         reason |-> "Trailing Stop", comment |-> pos.comment]>>
                 ELSE <<>>)

\* the loop body of _manage_open_positions: the modify_trade calls made for one
\* position, each with the comment the position was read with
ManageOne(pos, info) ==
    LET be_result == check_break_even(pos, info)
        trail_res == check_trailing_stop(pos, info)
    IN  IF ~Contains(pos.comment, TextAIAgent) THEN <<>>
        ELSE IF be_result.action = "move_be"
        THEN <<[ticket |-> pos.ticket, sl |-> be_result.new_sl, reason |-> "Break Even",
                comment |-> pos.comment]>>
        ELSE IF trail_res.action = "trail"
        THEN <<[ticket |-> pos.ticket, sl |-> trail_res.new_sl, reason |-> "Trailing Stop",
                comment |-> pos.comment]>>
        ELSE <<>>

RECURSIVE ManageLoop(_, _)
\* for pos in positions
ManageLoop(open_positions, info) ==
    IF open_positions = <<>> THEN <<>>
    ELSE ManageOne(Head(open_positions), info) \o ManageLoop(Tail(open_positions), info)

\* _manage_open_positions: the modify_trade calls of one cycle, in order
manage_open_positions(open_positions, info) ==
    IF Len(open_positions) = 0 THEN <<>>
    ELSE IF DOMAIN info = {} THEN <<>>
    ELSE ManageLoop(open_positions, info)

RECURSIVE ApplyMods(_, _, _)
\* the positions at the broker after modify_trade was called for each of ms and
\* order_send answered DONE for the tickets in accepted
ApplyMods(ps, ms, accepted) ==
    IF ms = <<>> THEN ps
    ELSE LET m == Head(ms)
             ps1 == [k \in DOMAIN ps |->
                        IF ps[k].ticket = m.ticket /\ m.ticket \in accepted
                        THEN [ps[k] EXCEPT !.sl = m.sl] ELSE ps[k]]
         IN  ApplyMods(ps1, Tail(ms), accepted)

\* step 9 of _tick: "passed" and "failed" are the answers of check_margin,
\* "skipped" is the path on which check_margin is not called
MarginGate(decision, account_info, info, quote) ==
    LET free_margin == Get(account_info, "free_margin", 0)
        bal == Get(account_info, "balance", 0)
        sl_dist == IF decision.atr_levels.present THEN decision.atr_levels.sl_distance
                   ELSE None
        estimated_lot == calculate_lot_size(bal, info, sl_dist, decision.risk_percent)
        leverage == Get(account_info, "leverage", 100)
        entry_price == IF decision.signal = "BUY" THEN quote.ask ELSE quote.bid
        contract_size == Get(info, "trade_contract_size", 100)
        estimated_margin ==
            ((entry_price \div 10) * (estimated_lot \div 10) * contract_size) \div leverage
    IN  IF DOMAIN info = {} THEN "skipped"
        ELSE IF DOMAIN quote = {} THEN "skipped"
        ELSE IF check_margin(free_margin, estimated_margin) THEN "passed"
        ELSE "failed"

\* no call of mt5.open_trade
NoOrder == [type |-> "NONE"]

\* _execute_trade up to its call of mt5.open_trade: the order handed over, or
\* NoOrder when it returns before
execute_trade(decision, info, bal, quote) ==
    LET sl_distance == IF decision.atr_levels.present THEN decision.atr_levels.sl_distance
                       ELSE None
        lot_sz == calculate_lot_size(bal, info, sl_distance, decision.risk_percent)
        entry_price == IF decision.signal = "BUY" THEN quote.ask ELSE quote.bid
        levels == calculate_sl_tp(decision.signal, entry_price, info, decision.atr_levels)
    IN  IF DOMAIN info = {} THEN NoOrder
        ELSE IF DOMAIN quote = {} THEN NoOrder
        ELSE [type |-> decision.signal, volume |-> lot_sz, price |-> entry_price,
              sl |-> levels.sl, tp |-> levels.tp, comment |-> OrderComment(decision)]

----------------------------------------------------------------------------
(* BacktestEngine (src/backtest.py).  Prices and money in thousandths of a
   dollar, lots in thousandths of a lot. *)

\* self.open_trade = None
NoTrade == [type |-> "NONE"]

\* BacktestEngine.__init__: initial_balance = 10000.0
INITIAL_BALANCE == 10000000

BtMinBars_AsCheckSignal(c) == MinCandles(c)

\* run, lines 74-77: min_bars
BtMinBars(c) ==
    IF c.EMA_200_ENABLED THEN Max(EMA_SLOW + 20, EMA_200_PERIOD + 20) ELSE EMA_SLOW + 20

\* round(x, 2) of an amount in thousandths.  The float that stands for an amount
\* on a half cent lies a hair above or below it, and round goes to either
\* neighbour accordingly: up tells which.
Round2(x, up) ==
    IF x % 10 = 5 THEN (IF up THEN x + 5 ELSE x - 5) ELSE RoundHalfEven(x, 10) * 10

\* pnl_per_unit of _close_trade and _unrealized_pnl
PnlPerUnit(trade, price) ==
    IF trade.type = "BUY" THEN price - trade.entry_price ELSE trade.entry_price - price

\* pnl_per_unit * lot_size * contract_size with contract_size = 100: exact,
\* since lot_size is a whole number of hundredths of a lot
PnlOf(trade, price) == (PnlPerUnit(trade, price) * trade.lot_size) \div 10

\* the close that leaves self.open_trade set
close_trade_KeepsOpen(eng, exit_price, reason, up) ==
    LET trade == eng.open_trade
        pnl == PnlOf(trade, exit_price)
        trade_record ==
            [type |-> trade.type, entry_price |-> trade.entry_price,
             exit_price |-> exit_price, entry_time |-> trade.entry_time,
             lot_size |-> trade.lot_size, pnl |-> Round2(pnl, up),
             reason |-> reason, be_activated |-> trade.be_activated,
             confluences |-> trade.confluences,
             total_confluences |-> trade.total_confluences,
             risk_percent |-> trade.risk_percent]
    IN  [eng EXCEPT !.balance = eng.balance + pnl,
                    !.trades = Append(eng.trades, trade_record)]

\* _close_trade on the engine state eng = [balance, trades, open_trade, be_moves];
\* of the record, pnl_pips is left out: nothing reads it
close_trade(eng, exit_price, reason, up) ==
    LET trade == eng.open_trade
        pnl == PnlOf(trade, exit_price)
        trade_record ==
            [type |-> trade.type, entry_price |-> trade.entry_price,
             exit_price |-> exit_price, entry_time |-> trade.entry_time,
             lot_size |-> trade.lot_size, pnl |-> Round2(pnl, up),
             reason |-> reason, be_activated |-> trade.be_activated,
             confluences |-> trade.confluences,
             total_confluences |-> trade.total_confluences,
             risk_percent |-> trade.risk_percent]
    IN  [eng EXCEPT !.balance = eng.balance + pnl,
                    !.trades = Append(eng.trades, trade_record),
                    !.open_trade = NoTrade]

manage_trade_Rearms(eng, bar, up) ==
    LET trade == eng.open_trade
        be_distance == BREAK_EVEN_PIPS * 100
    IN  IF trade.type = "BUY"
        THEN IF bar.low <= trade.sl THEN close_trade(eng, trade.sl, "SL", up)
             ELSE IF bar.high >= trade.tp THEN close_trade(eng, trade.tp, "TP", up)
             ELSE IF bar.high - trade.entry_price >= be_distance
                  THEN [eng EXCEPT !.open_trade.sl = trade.entry_price + 100,
                                   !.open_trade.be_activated = TRUE,
                                   !.be_moves = eng.be_moves + 1]
                  ELSE eng
        ELSE IF bar.high >= trade.sl THEN close_trade(eng, trade.sl, "SL", up)
             ELSE IF bar.low <= trade.tp THEN close_trade(eng, trade.tp, "TP", up)
             ELSE IF trade.entry_price - bar.low >= be_distance
                  THEN [eng EXCEPT !.open_trade.sl = trade.entry_price - 100,
                                   !.open_trade.be_activated = TRUE,
                                   !.be_moves = eng.be_moves + 1]
                  ELSE eng

\* _manage_trade with the take-profit tested before the stop-loss
manage_trade_TargetFirst(eng, bar, up) ==
    LET trade == eng.open_trade
        be_distance == BREAK_EVEN_PIPS * 100
    IN  IF trade.type = "BUY"
        THEN IF bar.high >= trade.tp THEN close_trade(eng, trade.tp, "TP", up)
             ELSE IF bar.low <= trade.sl THEN close_trade(eng, trade.sl, "SL", up)
             ELSE IF ~trade.be_activated /\ bar.high - trade.entry_price >= be_distance
                  THEN [eng EXCEPT !.open_trade.sl = trade.entry_price + 100,
                                   !.open_trade.be_activated = TRUE,
                                   !.be_moves = eng.be_moves + 1]
                  ELSE eng
        ELSE IF bar.low <= trade.tp THEN close_trade(eng, trade.tp, "TP", up)
             ELSE IF bar.high >= trade.sl THEN close_trade(eng, trade.sl, "SL", up)
             ELSE IF ~trade.be_activated /\ trade.entry_price - bar.low >= be_distance
                  THEN [eng EXCEPT !.open_trade.sl = trade.entry_price - 100,
                                   !.open_trade.be_activated = TRUE,
                                   !.be_moves = eng.be_moves + 1]
                  ELSE eng

\* _manage_trade: stop-loss, then take-profit, else break-even arming
manage_trade(eng, bar, up) ==
    LET trade == eng.open_trade
        be_distance == BREAK_EVEN_PIPS * 100
    IN  IF trade.type = "BUY"
        THEN IF bar.low <= trade.sl THEN close_trade(eng, trade.sl, "SL", up)
             ELSE IF bar.high >= trade.tp THEN close_trade(eng, trade.tp, "TP", up)
             ELSE IF ~trade.be_activated /\ bar.high - trade.entry_price >= be_distance
                  THEN [eng EXCEPT !.open_trade.sl = trade.entry_price + 100,
                                   !.open_trade.be_activated = TRUE,
                                   !.be_moves = eng.be_moves + 1]
                  ELSE eng
        ELSE IF bar.high >= trade.sl THEN close_trade(eng, trade.sl, "SL", up)
             ELSE IF bar.low <= trade.tp THEN close_trade(eng, trade.tp, "TP", up)
             ELSE IF ~trade.be_activated /\ trade.entry_price - bar.low >= be_distance
                  THEN [eng EXCEPT !.open_trade.sl = trade.entry_price - 100,
                                   !.open_trade.be_activated = TRUE,
                                   !.be_moves = eng.be_moves + 1]
                  ELSE eng

\* _check_entry, given the dict check_signal returned for the window ending at
\* bar number idx
check_entry(eng, res, bar, idx) ==
    IF res.signal = "NONE" THEN eng
    ELSE
    LET entry_price == bar.close
        sl_distance == IF res.atr_levels.present THEN res.atr_levels.sl_distance * 10
                       ELSE STOP_LOSS_PIPS * 100
        tp_distance == IF res.atr_levels.present THEN res.atr_levels.tp_distance * 10
                       ELSE TAKE_PROFIT_PIPS * 100
        sl == IF res.signal = "BUY" THEN entry_price - sl_distance
              ELSE entry_price + sl_distance
        tp == IF res.signal = "BUY" THEN entry_price + tp_distance
              ELSE entry_price - tp_distance
        lot0 == IF sl_distance > 0
                THEN RoundHalfEven(eng.balance * res.risk_percent, 10000 * sl_distance) * 10
                ELSE 10
        lot_sz == Max(10, lot0)
    IN  [eng EXCEPT !.open_trade =
                        [type |-> res.signal, entry_price |-> entry_price, sl |-> sl,
                         tp |-> tp, lot_size |-> lot_sz, entry_time |-> idx,
                         sl_distance |-> sl_distance, be_activated |-> FALSE,
                         confluences |-> res.confluences_met,
                         total_confluences |-> res.total_confluences,
                         risk_percent |-> res.risk_percent],
                    !.be_moves = 0]

\* _unrealized_pnl
unrealized_pnl(trade, bar) ==
    IF trade = NoTrade THEN 0 ELSE PnlOf(trade, bar.close)

RECURSIVE SumPnl(_)
\* sum(t["pnl"] for t in trades)
SumPnl(ts) == IF ts = <<>> THEN 0 ELSE ts[1].pnl + SumPnl(Tail(ts))

\* float('inf')
Inf == 2000000000

\* round(n / d, k) of a quotient of non-negative numbers scaled to the last
\* digit kept; a tie falls to either neighbour
RoundRatio(n, d, up) ==
    LET q == n \div d
        r == n % d
    IN  IF 2 * r > d \/ (2 * r = d /\ up) THEN q + 1 ELSE q

RECURSIVE SelectPnl(_, _)
\* [t for t in trades if t["pnl"] > 0], or those with t["pnl"] < 0
SelectPnl(ts, positive) ==
    IF ts = <<>> THEN <<>>
    ELSE (IF (positive /\ ts[1].pnl > 0) \/ (~positive /\ ts[1].pnl < 0)
          THEN <<ts[1]>> ELSE <<>>) \o SelectPnl(Tail(ts), positive)

\* lines 316-323: the list streaks, current_streak after each trade
RECURSIVE Streaks(_)
Streaks(ts) ==
    IF ts = <<>> THEN <<>>
    ELSE LET before == Streaks(SubSeq(ts, 1, Len(ts) - 1))
             current_streak == IF before = <<>> THEN 0 ELSE before[Len(before)]
             t == ts[Len(ts)]
         IN  Append(before,
                    IF t.pnl > 0 THEN Max(0, current_streak) + 1
                    ELSE IF t.pnl < 0 THEN Min(0, current_streak) - 1
                    ELSE current_streak)

\* the metrics with a profit factor of zero when nothing was lost
calculate_metrics_ZeroFactor(bal, ts, up) ==
    LET wins == {k \in DOMAIN ts : ts[k].pnl > 0}
        losses == {k \in DOMAIN ts : ts[k].pnl < 0}
        breakevens == {k \in DOMAIN ts : ts[k].pnl = 0}
        total_profit == SumPnl(SelectPnl(ts, TRUE))
        total_loss == -SumPnl(SelectPnl(ts, FALSE))
    IN  IF ts = <<>> THEN [total_trades |-> 0]
        ELSE [total_trades |-> Len(ts),
              wins |-> Cardinality(wins),
              losses |-> Cardinality(losses),
              breakevens |-> Cardinality(breakevens),
              win_rate |-> RoundRatio(Cardinality(wins) * 1000, Len(ts), up),
              profit_factor |-> IF total_loss > 0 THEN RoundRatio(total_profit * 100, total_loss, up)
                               ELSE 0,
              net_profit |-> Round2(bal - INITIAL_BALANCE, up),
              tp_closures |-> Cardinality({k \in DOMAIN ts : ts[k].reason = "TP"}),
              sl_closures |-> Cardinality({k \in DOMAIN ts : ts[k].reason = "SL"}),
              max_win_streak |-> SetMax({Streaks(ts)[k] : k \in DOMAIN ts}),
              max_loss_streak |-> LET lowest == -SetMax({-Streaks(ts)[k] : k \in DOMAIN ts})
                                 IN  IF lowest < 0 THEN -lowest ELSE lowest,
              be_activations |-> Cardinality({k \in DOMAIN ts : ts[k].be_activated}),
              final_balance |-> Round2(bal, up)]

\* _calculate_metrics: the counts, the rates and the balance; win_rate in
\* tenths of a percent, profit_factor in hundredths, money in thousandths
calculate_metrics(bal, ts, up) ==
    LET wins == {k \in DOMAIN ts : ts[k].pnl > 0}
        losses == {k \in DOMAIN ts : ts[k].pnl < 0}
        breakevens == {k \in DOMAIN ts : ts[k].pnl = 0}
        total_profit == SumPnl(SelectPnl(ts, TRUE))
        total_loss == -SumPnl(SelectPnl(ts, FALSE))
    IN  IF ts = <<>> THEN [total_trades |-> 0]
        ELSE [total_trades |-> Len(ts),
              wins |-> Cardinality(wins),
              losses |-> Cardinality(losses),
              breakevens |-> Cardinality(breakevens),
              win_rate |-> RoundRatio(Cardinality(wins) * 1000, Len(ts), up),
              profit_factor |-> IF total_loss > 0 THEN RoundRatio(total_profit * 100, total_loss, up)
                               ELSE Inf,
              net_profit |-> Round2(bal - INITIAL_BALANCE, up),
              tp_closures |-> Cardinality({k \in DOMAIN ts : ts[k].reason = "TP"}),
              sl_closures |-> Cardinality({k \in DOMAIN ts : ts[k].reason = "SL"}),
              max_win_streak |-> SetMax({Streaks(ts)[k] : k \in DOMAIN ts}),
              max_loss_streak |-> LET lowest == -SetMax({-Streaks(ts)[k] : k \in DOMAIN ts})
                                 IN  IF lowest < 0 THEN -lowest ELSE lowest,
              be_activations |-> Cardinality({k \in DOMAIN ts : ts[k].be_activated}),
              final_balance |-> Round2(bal, up)]

----------------------------------------------------------------------------
(* The components at rest: each specification below runs one component and
   leaves the others as they are here *)

NoInput == [nbars |-> 0]

NotCalled == [signal |-> "?"]

SigIdle ==
    /\ cfg = ConfigAsShipped
    /\ sig_pc = "idle"
    /\ sig_in = NoInput
    /\ result = NotCalled

\* a symbol_info dict without any key
InfoEmpty == [k \in {} |-> 0]

NoLotCall == [balance |-> None]

LotIdle ==
    /\ lot_in = NoLotCall
    /\ lot_size = None

NoPosition == [type |-> "NONE"]

NoTrailResult == [action |-> "?", new_sl |-> None]

LiveIdle ==
    /\ position = NoPosition
    /\ symbol_info = InfoEmpty
    /\ trail_result = NoTrailResult


NoMetrics == [total_trades |-> None]

BtIdle ==
    /\ bt_pc = "idle"
    /\ simulated_sentiment = [present |-> FALSE]
    /\ bar_count = 0
    /\ i = 0
    /\ balance = 0
    /\ equity_curve = <<>>
    /\ trades = <<>>
    /\ open_trade = NoTrade
    /\ metrics = NoMetrics
    /\ last_close = 0
    /\ be_moves = 0

NoCall == [method |-> "none"]

NoReturn == [returned |-> FALSE]

CallIdle ==
    /\ call = NoCall
    /\ ret = NoReturn

NoTick == [gate |-> "none", order |-> NoOrder]

AgentIdle ==
    /\ positions = <<>>
    /\ mods = <<>>
    /\ tick = NoTick
    /\ last_signal_time = None

\* the state before the call of a method that keeps none of its own
CallInit ==
    /\ CallIdle
    /\ SigIdle
    /\ LotIdle
    /\ LiveIdle
    /\ BtIdle
    /\ AgentIdle

----------------------------------------------------------------------------
(* The inputs check_signal is called with *)

\* len(df): one bar short of each warm-up minimum, and each minimum
BarCounts == {EMA_SLOW + 9, EMA_SLOW + 10, EMA_200_PERIOD + 9, EMA_200_PERIOD + 10}

\* the close of the last closed bar, in cents
Close0 == 200000

\* df_htf: None, a frame too short to resolve, and resolvable frames of each trend
HtfFrames ==
    { [present |-> FALSE, len |-> 0, ema_fast |-> 0, ema_slow |-> 0],
      [present |-> TRUE, len |-> MTF_EMA_SLOW + 4, ema_fast |-> Close0 + 1, ema_slow |-> Close0],
      [present |-> TRUE, len |-> MTF_EMA_SLOW + 5, ema_fast |-> Close0 + 1, ema_slow |-> Close0],
      [present |-> TRUE, len |-> MTF_EMA_SLOW + 5, ema_fast |-> Close0, ema_slow |-> Close0 + 1] }

\* sentiment_adjustments: None, and dicts as TrendAnalyzer.get_adjustments and the
\* backtest's simulated scenarios build them
NoSentiment ==
    [present |-> FALSE, rsi_lower |-> RSI_LOWER, rsi_upper |-> RSI_UPPER,
     atr_sl_multiplier |-> ATR_SL_MULTIPLIER, atr_tp_multiplier |-> ATR_TP_MULTIPLIER,
     min_confluences |-> MIN_CONFLUENCES,
     sentiment_confluence_buy |-> FALSE, sentiment_confluence_sell |-> FALSE]

Sentiments ==
    { NoSentiment,
      [NoSentiment EXCEPT !.present = TRUE, !.min_confluences = 3,
                          !.sentiment_confluence_buy = TRUE],
      [NoSentiment EXCEPT !.present = TRUE, !.min_confluences = SENTIMENT_MIN_CONF_MIXED,
                          !.rsi_lower = 35, !.rsi_upper = 65,
                          !.sentiment_confluence_sell = TRUE],
      [NoSentiment EXCEPT !.present = TRUE, !.min_confluences = 2,
                          !.atr_sl_multiplier = 25, !.atr_tp_multiplier = 75] }

SignalInputs ==
    [ nbars : BarCounts,
      atr : {0, 1234},
      atr_sma_50 : {0, 400},
      trend : {"BULLISH", "BEARISH"},
      rsi : {50, 71},
      pullback_buy : BOOLEAN, pullback_sell : BOOLEAN,
      sweep_low : BOOLEAN, sweep_high : BOOLEAN,
      fib_buy : BOOLEAN, fib_sell : BOOLEAN,
      macd_histogram : {-1, 0, 1},
      close : {Close0},
      ema_200 : {Close0 - 1, Close0, Close0 + 1},
      adx : {ADX_MIN_THRESHOLD - 1, ADX_MIN_THRESHOLD},
      df_htf : HtfFrames,
      sentiment : Sentiments ]

\* what one bar can be: it cannot close on both sides of the fast EMA, and the
\* last fractal-high cannot be both older and newer than the last fractal-low
Consistent(in) ==
    /\ ~(in.pullback_buy /\ in.pullback_sell)
    /\ ~(in.fib_buy /\ in.fib_sell)

SigInit ==
    /\ CallIdle
    /\ AgentIdle
    /\ cfg \in Configs
    /\ sig_pc = "ready"
    /\ sig_in = NoInput
    /\ result = NotCalled
    /\ LotIdle
    /\ LiveIdle
    /\ BtIdle

\* one call of Strategy.check_signal
CheckSignal ==
    /\ sig_pc = "ready"
    /\ \E in \in SignalInputs :
          /\ Consistent(in)
          /\ sig_in' = in
          /\ result' = check_signal(cfg, in)
    /\ sig_pc' = "done"
    /\ UNCHANGED <<cfg, lotvars, livevars, btvars, callvars, agentvars>>

SpecSignal == SigInit /\ [][CheckSignal]_vars

----------------------------------------------------------------------------
(* Claims about Strategy.check_signal, checked under SpecSignal *)

Decided == sig_pc = "done" /\ result.signal # "NONE"

\* the floor in force for the call: MIN_CONFLUENCES or its sentiment override
EffectiveFloor ==
    IF sig_in.sentiment.present THEN sig_in.sentiment.min_confluences ELSE cfg.MIN_CONFLUENCES

\* C1: a call with fewer bars than the warm-up minimum (EMA_SLOW + 10, or
\* EMA_200_PERIOD + 10 with the long-term filter enabled) returns NONE with
\* confluences_met = 0 and risk_percent = 0, whatever the other inputs are.
C1_ShortHistoryIsNone ==
    (sig_pc = "done" /\
     sig_in.nbars < (IF cfg.EMA_200_ENABLED THEN EMA_200_PERIOD + 10 ELSE EMA_SLOW + 10))
    => (result.signal = "NONE" /\ result.confluences_met = 0 /\ result.risk_percent = 0)

\* a call one bar short of the extended minimum, on a bar whose every BUY
\* condition holds and with sentiment adjustments and a resolvable H4 frame
C1_Witness ==
    /\ sig_pc = "done"
    /\ cfg.EMA_200_ENABLED
    /\ sig_in.nbars = EMA_200_PERIOD + 9
    /\ sig_in.trend = "BULLISH" /\ sig_in.pullback_buy /\ sig_in.sweep_low /\ sig_in.fib_buy
    /\ sig_in.sentiment.present
    /\ sig_in.df_htf.present
    /\ result.signal = "NONE"

\* C2: BUY is returned only on a BULLISH last closed bar, SELL only on a BEARISH one.
C2_TrendIsMandatory ==
    Decided =>
        /\ (result.signal = "BUY" => sig_in.trend = "BULLISH")
        /\ (result.signal = "SELL" => sig_in.trend = "BEARISH")

\* a SELL decided although the BUY set holds at least as many conditions as the floor
C2_Witness ==
    /\ Decided
    /\ result.signal = "SELL"
    /\ sig_in.trend = "BEARISH"
    /\ sig_in.sweep_low /\ sig_in.fib_buy /\ sig_in.macd_histogram > 0

\* C3: a non-NONE decision has confluences_met >= the required minimum: the
\* effective floor in tiered mode, total_confluences otherwise.
C3_MeetsRequiredMinimum ==
    Decided =>
        result.confluences_met >=
            (IF cfg.TIERED_RISK_ENABLED THEN EffectiveFloor ELSE result.total_confluences)

\* a decision in all-or-nothing mode, and its floor is below the total
C3_Witness ==
    /\ Decided
    /\ ~cfg.TIERED_RISK_ENABLED
    /\ EffectiveFloor < result.total_confluences
    /\ result.confluences_met = result.total_confluences

\* C9: under the configured table the assigned risk is monotonic in the count:
\* every lower count that is assigned a risk is assigned no more than this decision.
C9_RiskMonotonic ==
    (Decided /\ cfg.RISK_BY_CONFLUENCES = RISK_BY_CONFLUENCES) =>
        \A a \in 0..result.confluences_met :
            TierRisk(cfg.RISK_BY_CONFLUENCES, a) > 0
                => TierRisk(cfg.RISK_BY_CONFLUENCES, a) <= result.risk_percent

\* a decision at 6 confluences under the configured table, with lower tiers below it
C9_Witness ==
    /\ Decided
    /\ cfg.RISK_BY_CONFLUENCES = RISK_BY_CONFLUENCES
    /\ result.confluences_met = 6
    /\ TierRisk(cfg.RISK_BY_CONFLUENCES, 4) > 0

\* the tiers of a table at or below a count
TiersAtOrBelow(risk_map, met) == {level \in DOMAIN risk_map : level <= met}

HasPositiveTier(risk_map, met) == met \in DOMAIN risk_map /\ risk_map[met] > 0

\* C10: a decision never carries risk_percent <= 0; when its count has no
\* positive tier of its own, a tier at or below the count exists and the risk
\* is that of the highest such tier.
C10_ClosestLowerTier ==
    Decided =>
        /\ result.risk_percent > 0
        /\ ~HasPositiveTier(cfg.RISK_BY_CONFLUENCES, result.confluences_met) =>
              /\ TiersAtOrBelow(cfg.RISK_BY_CONFLUENCES, result.confluences_met) # {}
              /\ result.risk_percent =
                    cfg.RISK_BY_CONFLUENCES[
                        SetMax(TiersAtOrBelow(cfg.RISK_BY_CONFLUENCES, result.confluences_met))]

\* a decision at 6 confluences under a table whose highest tier is 5 and that
\* has lower tiers as well
C10_Witness ==
    /\ Decided
    /\ result.confluences_met = 6
    /\ 6 \notin DOMAIN cfg.RISK_BY_CONFLUENCES
    /\ Cardinality(TiersAtOrBelow(cfg.RISK_BY_CONFLUENCES, 6)) > 1

----------------------------------------------------------------------------
(* RiskManager.calculate_lot_size under the metadata brokers report *)

\* symbol_info dicts: no key at all (every default), gold as quoted to two
\* decimals, an instrument traded in tenths of a lot, and one quoted to three
\* decimals and traded in thousandths of a lot.  point in thousandths of a
\* dollar, volumes in thousandths of a lot.
InfoGold ==
    [point |-> 10, digits |-> 2, spread |-> 25, volume_min |-> 10, volume_max |-> 100000,
     volume_step |-> 10, trade_contract_size |-> 100]

InfoCoarse ==
    [point |-> 10, digits |-> 2, spread |-> 25, volume_min |-> 100, volume_max |-> 50000,
     volume_step |-> 100, trade_contract_size |-> 100]

InfoFine ==
    [point |-> 1, digits |-> 3, spread |-> 250, volume_min |-> 1, volume_max |-> 100000,
     volume_step |-> 1, trade_contract_size |-> 100]

SymbolInfos == {InfoEmpty, InfoGold, InfoCoarse, InfoFine}

\* account balances, in dollars
Balances == {0, 100, 10000, 1000000}

\* risk_percent: not passed, and tiers of the table
RiskArgs == {None, 15, 30, 75}

\* sl_distance_price in cents: not passed, zero, and ATR-derived distances
SlDistanceArgs == {None, 0, 247, 926}

LotInit ==
    /\ CallIdle
    /\ AgentIdle
    /\ LotIdle
    /\ SigIdle
    /\ LiveIdle
    /\ BtIdle

\* one call of RiskManager.calculate_lot_size
CalculateLotSize ==
    /\ \E bal \in Balances, info \in SymbolInfos,
          sl_distance_price \in SlDistanceArgs, risk_percent \in RiskArgs :
          /\ lot_in' = [balance |-> bal, symbol_info |-> info,
                        sl_distance_price |-> sl_distance_price,
                        risk_percent |-> risk_percent]
          /\ lot_size' = calculate_lot_size(bal, info, sl_distance_price, risk_percent)
    /\ UNCHANGED <<sigvars, livevars, btvars, callvars, agentvars>>

SpecLot == LotInit /\ [][CalculateLotSize]_vars

----------------------------------------------------------------------------
(* A live position under repeated trailing-stop checks *)

\* the open price of the live position, in thousandths of a dollar
OpenPrice0 == 2000000

\* where the current price can stand relative to the open price: around the
\* activation distance of each point size, on and off the rounding grid
PriceOffsets ==
    {0, 540, 550, 700, 900, 5499, 5500, 5504, 5505, 7000, 9000}

LivePrices == {OpenPrice0 + o : o \in PriceOffsets} \cup {OpenPrice0 - o : o \in PriceOffsets}

\* the stop a position starts with: none (0), or the fixed-pip stop
InitialStops(type) ==
    {0, IF type = "BUY" THEN OpenPrice0 - STOP_LOSS_PIPS * 100
        ELSE OpenPrice0 + STOP_LOSS_PIPS * 100}

LiveInit ==
    /\ CallIdle
    /\ AgentIdle
    /\ \E type \in {"BUY", "SELL"} : \E sl \in InitialStops(type) :
          position = [type |-> type, open_price |-> OpenPrice0,
                      current_price |-> OpenPrice0, sl |-> sl]
    /\ symbol_info \in {InfoEmpty, InfoGold, InfoFine}
    /\ trail_result = NoTrailResult
    /\ SigIdle
    /\ LotIdle
    /\ BtIdle

\* one management pass over the position: the broker reports the current price,
\* check_trailing_stop is called, and a returned new_sl is sent to modify_trade,
\* which the broker accepts or rejects
TrailingCheck ==
    /\ position.type # "NONE"
    /\ \E price \in LivePrices, accepted \in BOOLEAN :
          LET pos == [position EXCEPT !.current_price = price]
              res == check_trailing_stop(pos, symbol_info)
          IN  /\ trail_result' = res
              /\ position' = IF res.action = "trail" /\ accepted
                             THEN [pos EXCEPT !.sl = res.new_sl]
                             ELSE pos
    /\ UNCHANGED <<symbol_info, sigvars, lotvars, btvars, callvars, agentvars>>

SpecLive == LiveInit /\ [][TrailingCheck]_vars

----------------------------------------------------------------------------
(* BacktestEngine.run over a bar sequence *)

\* how many bars past min_bars a replayed sequence has at most
MaxBars == 3

\* the price the replayed bars move around, in thousandths of a dollar
BtPrice0 == 2000000

\* df.iloc[i], the columns _manage_trade, _check_entry and _unrealized_pnl read:
\* a flat bar; a drop beyond every stop of a BUY and the break-even distance of a
\* SELL; a rise to the break-even distance of a BUY that closes off the cent
\* grid; a bar that stays above a break-even stop; a spike beyond every target
BtBars ==
    { [low |-> BtPrice0, close |-> BtPrice0, high |-> BtPrice0],
      [low |-> BtPrice0 - 4000, close |-> BtPrice0, high |-> BtPrice0],
      [low |-> BtPrice0, close |-> BtPrice0 + 1005, high |-> BtPrice0 + 2500],
      [low |-> BtPrice0 + 1005, close |-> BtPrice0 + 1005, high |-> BtPrice0 + 2500],
      [low |-> BtPrice0, close |-> BtPrice0, high |-> BtPrice0 + 9500] }

\* the configurations replayed
BtConfigs == {ConfigAsShipped, ConfigBare}

\* simulated_sentiment: None, or a scenario dict
BtSentiments ==
    { NoSentiment,
      [NoSentiment EXCEPT !.present = TRUE, !.min_confluences = 3,
                          !.sentiment_confluence_buy = TRUE] }

\* the df_h4 window: None without MTF, else a frame of the given length whose
\* trend, once resolvable, is bearish
BtHtfFrame(c, len) ==
    IF c.MTF_ENABLED
    THEN [present |-> TRUE, len |-> len, ema_fast |-> Close0, ema_slow |-> Close0 + 1]
    ELSE [present |-> FALSE, len |-> 0, ema_fast |-> 0, ema_slow |-> 0]

\* what check_signal reads of the window df.iloc[:n]: the indicator row of its
\* last closed bar.  The structure of the trend's side is formed or not, and the
\* long EMA is on the trend's side.
BtWindow(c, n, sent, trend, atr, formed, htf_len) ==
    [nbars |-> n, atr |-> atr, atr_sma_50 |-> 0, trend |-> trend, rsi |-> 50,
     pullback_buy |-> trend = "BULLISH",
     pullback_sell |-> trend = "BEARISH",
     sweep_low |-> trend = "BULLISH" /\ formed,
     sweep_high |-> trend = "BEARISH" /\ formed,
     fib_buy |-> trend = "BULLISH" /\ formed,
     fib_sell |-> trend = "BEARISH" /\ formed,
     macd_histogram |-> IF trend = "BULLISH" THEN 1 ELSE -1,
     close |-> Close0,
     ema_200 |-> IF trend = "BULLISH" THEN Close0 - 1 ELSE Close0 + 1,
     adx |-> ADX_MIN_THRESHOLD,
     df_htf |-> BtHtfFrame(c, htf_len),
     sentiment |-> sent]

\* the windows replayed: formed structure on either side with the ATR defined
\* (1.200) or zero, the H4 trend not yet resolvable; and a bullish bar of
\* unformed structure against a bearish H4 trend
BtWindows(c, n, sent) ==
    { BtWindow(c, n, sent, trend, atr, TRUE, MTF_EMA_SLOW + 4) :
        trend \in {"BULLISH", "BEARISH"}, atr \in {0, 1200} }
    \cup { BtWindow(c, n, sent, "BULLISH", 0, FALSE, MTF_EMA_SLOW + 5) }

\* BacktestEngine(), before run
BtInit ==
    /\ CallIdle
    /\ AgentIdle
    /\ cfg \in BtConfigs
    /\ simulated_sentiment \in BtSentiments
    /\ bt_pc = "created"
    /\ bar_count = 0
    /\ i = 0
    /\ balance = INITIAL_BALANCE
    /\ equity_curve = <<>>
    /\ trades = <<>>
    /\ open_trade = NoTrade
    /\ metrics = NoMetrics
    /\ last_close = 0
    /\ be_moves = 0
    /\ SigIdle
    /\ LotIdle
    /\ LiveIdle

\* run(df), up to the loop: the reset, and the abort on a short df
RunStart ==
    /\ bt_pc = "created"
    /\ \E n \in (BtMinBars(cfg) - 1)..(BtMinBars(cfg) + MaxBars) :
          /\ bar_count' = n
          /\ IF n < BtMinBars(cfg)
             THEN /\ bt_pc' = "aborted"
                  /\ metrics' = [k \in {} |-> 0]
                  /\ i' = i
             ELSE /\ bt_pc' = "loop"
                  /\ metrics' = metrics
                  /\ i' = BtMinBars(cfg)
    /\ balance' = INITIAL_BALANCE
    /\ equity_curve' = <<INITIAL_BALANCE>>
    /\ trades' = <<>>
    /\ open_trade' = NoTrade
    /\ UNCHANGED <<cfg, simulated_sentiment, last_close, be_moves, sigvars, lotvars, livevars,
                   callvars, agentvars>>

\* the iteration that runs _check_entry whether or not a position is open
BarStep_EntersOverOpen ==
    /\ bt_pc = "loop"
    /\ i < bar_count
    /\ \E current_bar \in BtBars, window \in BtWindows(cfg, i + 1, simulated_sentiment),
          up \in BOOLEAN :
          LET eng0 == [balance |-> balance, trades |-> trades,
                       open_trade |-> open_trade, be_moves |-> be_moves]
              eng1 == IF eng0.open_trade # NoTrade THEN manage_trade(eng0, current_bar, up)
                      ELSE eng0
              eng2 == check_entry(eng1, check_signal(cfg, window), current_bar, i)
          IN  /\ balance' = eng2.balance
              /\ trades' = eng2.trades
              /\ open_trade' = eng2.open_trade
              /\ be_moves' = eng2.be_moves
              /\ equity_curve' = Append(equity_curve,
                                        eng2.balance + unrealized_pnl(eng2.open_trade, current_bar))
              /\ last_close' = current_bar.close
    /\ i' = i + 1
    /\ UNCHANGED <<cfg, simulated_sentiment, bt_pc, bar_count, metrics,
                   sigvars, lotvars, livevars, callvars, agentvars>>

\* one iteration of the loop of run, on bar i
BarStep ==
    /\ bt_pc = "loop"
    /\ i < bar_count
    /\ \E current_bar \in BtBars, window \in BtWindows(cfg, i + 1, simulated_sentiment),
          up \in BOOLEAN :
          LET eng0 == [balance |-> balance, trades |-> trades,
                       open_trade |-> open_trade, be_moves |-> be_moves]
              eng1 == IF eng0.open_trade # NoTrade THEN manage_trade(eng0, current_bar, up)
                      ELSE eng0
              eng2 == IF eng1.open_trade = NoTrade
                      THEN check_entry(eng1, check_signal(cfg, window), current_bar, i)
                      ELSE eng1
          IN  /\ balance' = eng2.balance
              /\ trades' = eng2.trades
              /\ open_trade' = eng2.open_trade
              /\ be_moves' = eng2.be_moves
              /\ equity_curve' = Append(equity_curve,
                                        eng2.balance + unrealized_pnl(eng2.open_trade, current_bar))
              /\ last_close' = current_bar.close
    /\ i' = i + 1
    /\ UNCHANGED <<cfg, simulated_sentiment, bt_pc, bar_count, metrics,
                   sigvars, lotvars, livevars, callvars, agentvars>>

\* run after the loop: the forced close at df.iloc[-1] and the metrics
RunFinish ==
    /\ bt_pc = "loop"
    /\ i = bar_count
    /\ \E up1 \in BOOLEAN, up2 \in BOOLEAN :
       LET eng0 == [balance |-> balance, trades |-> trades,
                    open_trade |-> open_trade, be_moves |-> be_moves]
           eng1 == IF open_trade # NoTrade
                   THEN close_trade(eng0, last_close, "FIN_BACKTEST", up1)
                   ELSE eng0
       IN  /\ balance' = eng1.balance
           /\ trades' = eng1.trades
           /\ open_trade' = eng1.open_trade
           /\ be_moves' = eng1.be_moves
           /\ metrics' = calculate_metrics(eng1.balance, eng1.trades, up2)
    /\ bt_pc' = "done"
    /\ UNCHANGED <<cfg, simulated_sentiment, bar_count, i, equity_curve, last_close,
                   sigvars, lotvars, livevars, callvars, agentvars>>

SpecBacktest == BtInit /\ [][RunStart \/ BarStep \/ RunFinish]_vars

----------------------------------------------------------------------------
(* Claims about RiskManager *)

\* C4: the returned lot size is a multiple of the instrument's volume_step and
\* lies within [volume_min, volume_max], defaults standing in for missing keys.
C4_LotOnStepWithinLimits ==
    lot_size # None =>
        LET info == lot_in.symbol_info
            volume_step == Get(info, "volume_step", 10)
            volume_min == Get(info, "volume_min", 10)
            volume_max == Get(info, "volume_max", 100000)
        IN  /\ lot_size % volume_step = 0
            /\ volume_min <= lot_size
            /\ lot_size <= volume_max

\* C6: with every returned new_sl applied, the stop of a BUY never decreases and
\* the stop of a SELL never increases, and "trail" is returned only with a
\* candidate strictly better than the stop the position had at the call.
C6_TrailingRatchet ==
    [][ /\ (position.type = "BUY" => position'.sl >= position.sl)
        /\ (position.type = "SELL" => position'.sl <= position.sl)
        /\ (trail_result'.action = "trail" =>
               IF position.type = "BUY" THEN trail_result'.new_sl > position.sl
               ELSE trail_result'.new_sl < position.sl) ]_vars

\* a BUY whose stop was trailed up, after which the price fell back while still
\* beyond the activation distance: the candidate is worse and the stop is kept
C6_Witness ==
    /\ position.type = "BUY"
    /\ position.sl > OpenPrice0
    /\ position.current_price >=
          position.open_price + TRAILING_ACTIVATE_PIPS * Get(symbol_info, "point", 10) * 10
    /\ position.current_price - TRAILING_STEP_PIPS * Get(symbol_info, "point", 10) * 10
          < position.sl - 1000
    /\ trail_result.action = "none"

----------------------------------------------------------------------------
(* Claims about BacktestEngine, checked under SpecBacktest *)

\* the position open before and after a step is the same one
SamePosition ==
    /\ open_trade # NoTrade
    /\ open_trade' # NoTrade
    /\ open_trade'.entry_time = open_trade.entry_time

\* C5: once be_activated is true on the open position it stays true on every
\* later bar while that position is open, the stop then stays at the break-even
\* level, and the stop is moved to break-even at most once per position.
C5_BreakEvenArmsOnce ==
    [][ /\ (SamePosition /\ open_trade.be_activated) =>
               (open_trade'.be_activated /\ open_trade'.sl = open_trade.sl)
        /\ be_moves' <= 1 ]_vars

\* an armed BUY that survived a later bar whose high was again beyond the
\* break-even distance
C5_Witness ==
    /\ bt_pc = "loop"
    /\ open_trade # NoTrade
    /\ open_trade.type = "BUY"
    /\ open_trade.be_activated
    /\ be_moves = 1
    /\ i >= open_trade.entry_time + 3

\* C7: at every bar the realized balance is initial_balance plus the recorded
\* P&L of the trades closed so far, and after run the final_balance of the
\* metrics is initial_balance plus the P&L of all trade records.
C7_BalanceIsSumOfRecords ==
    /\ bt_pc = "loop" => balance = INITIAL_BALANCE + SumPnl(trades)
    /\ (bt_pc = "done" /\ trades # <<>>) =>
           metrics.final_balance = INITIAL_BALANCE + SumPnl(trades)
    /\ (bt_pc = "done" /\ trades = <<>>) => balance = INITIAL_BALANCE

----------------------------------------------------------------------------
(* Strategy._check_fibonacci_ote on the swings of a frame *)

\* the level of the last fractal-high and of the last fractal-low: None, a leg
\* of 10.000, a leg of 9.995, no leg at all and an inverted one
FibSwingHighs == {None, 1960000}

FibSwingLows == {None, 1950000, 1950005, 1960000, 1970000}

\* the bar indices of the two fractals: the high older, the high newer, the same bar
FibIndexPairs == {<<10, 20>>, <<20, 10>>, <<10, 10>>}

\* the last closed close: at, inside and just outside the bounds of the zones
\* of both legs and both directions, on and off the cent grid
FibPrices ==
    {1950000, 1952130, 1952140, 1952144, 1953000, 1953820, 1953823, 1953830,
     1956180, 1956182, 1957000, 1957860, 1957861, 1957870, 1960000}

\* one call of Strategy._check_fibonacci_ote
CheckFibonacciOte ==
    /\ \E swing_high \in FibSwingHighs, swing_low \in FibSwingLows,
          idx \in FibIndexPairs, current_price \in FibPrices, direction \in {"BUY", "SELL"} :
          LET swings == [swing_high |-> swing_high,
                         swing_high_idx |-> IF swing_high = None THEN None ELSE idx[1],
                         swing_low |-> swing_low,
                         swing_low_idx |-> IF swing_low = None THEN None ELSE idx[2]]
          IN  /\ call' = [method |-> "_check_fibonacci_ote", swings |-> swings,
                          current_price |-> current_price, direction |-> direction]
              /\ ret' = check_fibonacci_ote(swings, current_price, direction)
    /\ UNCHANGED <<sigvars, lotvars, livevars, btvars, agentvars>>

SpecFib == CallInit /\ [][CheckFibonacciOte]_vars

----------------------------------------------------------------------------
(* Claims about Strategy._check_fibonacci_ote *)

\* C11: whenever in_ote is true, the returned zone has zone_low <= zone_high
\* and holds the last closed close: zone_low <= price <= zone_high.
C11_ZoneHoldsPrice ==
    (call.method = "_check_fibonacci_ote" /\ ret.in_ote) =>
        /\ ret.zone_low <= ret.zone_high
        /\ ret.zone_low * 10 <= call.current_price
        /\ call.current_price <= ret.zone_high * 10

\* C26: _check_fibonacci_ote returns "not in zone" (in_ote false, no level and
\* no zone) whenever a swing extreme is missing, the swing range high - low is
\* <= 0, or the temporal order is invalid: for BUY the last fractal-high not
\* more recent than the last fractal-low, for SELL the last fractal-low not more
\* recent than the last fractal-high.
C26_NotInZoneOnInvalidSwings ==
    call.method = "_check_fibonacci_ote" =>
        LET swings == call.swings
            missing == swings.swing_high = None \/ swings.swing_low = None
            no_range == ~missing /\ swings.swing_high - swings.swing_low <= 0
            bad_order == ~missing /\
                         IF call.direction = "BUY"
                         THEN swings.swing_high_idx <= swings.swing_low_idx
                         ELSE swings.swing_low_idx <= swings.swing_high_idx
        IN  (missing \/ no_range \/ bad_order) => ret = NotInOte

\* a BUY call whose price lies inside the 61.8-78.6 % band of a leg of positive
\* range, with the fractal-high older than the fractal-low: not in zone
C26_Witness ==
    /\ call.method = "_check_fibonacci_ote"
    /\ call.direction = "BUY"
    /\ call.swings.swing_high = 1960000
    /\ call.swings.swing_low = 1950000
    /\ call.swings.swing_high_idx < call.swings.swing_low_idx
    /\ call.current_price = 1953000
    /\ ret = NotInOte

\* C27 as stated: fib_level is 0 with the last closed price at the older swing
\* extreme of the leg and 1 with it at the newer one (BUY: older = fractal-low,
\* newer = fractal-high; SELL: older = fractal-high, newer = fractal-low).
C27_LevelFromOlderExtreme ==
    (call.method = "_check_fibonacci_ote" /\ ret # NotInOte) =>
        LET older == IF call.direction = "BUY" THEN call.swings.swing_low
                     ELSE call.swings.swing_high
            newer == IF call.direction = "BUY" THEN call.swings.swing_high
                     ELSE call.swings.swing_low
        IN  /\ call.current_price = older => ret.fib_level = 0
            /\ call.current_price = newer => ret.fib_level = 1000

\* C27, amended: fib_level is the retracement from the newer extreme: 0 with
\* the last closed price at the newer swing extreme of the leg and 1 with it at
\* the older one, for BUY and for SELL.
C27_LevelFromNewerExtreme ==
    (call.method = "_check_fibonacci_ote" /\ ret # NotInOte) =>
        LET older == IF call.direction = "BUY" THEN call.swings.swing_low
                     ELSE call.swings.swing_high
            newer == IF call.direction = "BUY" THEN call.swings.swing_high
                     ELSE call.swings.swing_low
        IN  /\ call.current_price = newer => ret.fib_level = 0
            /\ call.current_price = older => ret.fib_level = 1000

\* a SELL leg in valid order with the price at its fractal-high, the older
\* extreme: the level returned is 1
C27_Witness ==
    /\ call.method = "_check_fibonacci_ote"
    /\ call.direction = "SELL"
    /\ ret # NotInOte
    /\ call.swings.swing_high_idx < call.swings.swing_low_idx
    /\ call.current_price = call.swings.swing_high
    /\ ret.fib_level = 1000

----------------------------------------------------------------------------
(* Stop and target of a new position: RiskManager.calculate_sl_tp and the
   entry of the backtest, on the distances get_dynamic_sl_tp emits *)

\* ATR of the last closed bar, in thousandths of a dollar: undefined, zero,
\* a fraction of a cent, a few cents, and ordinary values
SlTpAtrs == {NaN, 0, 2, 4, 30, 1234, 7500}

\* the multipliers of config.py and of the simulated sentiment of the backtest
SlTpMultipliers == {<<ATR_SL_MULTIPLIER, ATR_TP_MULTIPLIER>>, <<20, 60>>}

\* entry prices, on and off the cent grid
SlTpPrices == {1999997, 2000000, 2000004}

\* _execute_trade's call of calculate_sl_tp with the atr_levels of the decision
CalculateSlTp ==
    /\ \E c \in {ConfigAsShipped, ConfigBare}, atr \in SlTpAtrs, mult \in SlTpMultipliers,
          order_type \in {"BUY", "SELL"}, current_price \in SlTpPrices,
          info \in SymbolInfos :
          LET atr_levels == get_dynamic_sl_tp(c, atr, mult[1], mult[2])
          IN  /\ call' = [method |-> "calculate_sl_tp", order_type |-> order_type,
                          current_price |-> current_price, symbol_info |-> info,
                          atr_levels |-> atr_levels]
              /\ ret' = calculate_sl_tp(order_type, current_price, info, atr_levels)
    /\ UNCHANGED <<sigvars, lotvars, livevars, btvars, agentvars>>

\* _check_entry of the backtest on a decision that is not NONE
BacktestEntry ==
    /\ \E c \in {ConfigAsShipped, ConfigBare}, atr \in SlTpAtrs, mult \in SlTpMultipliers,
          order_type \in {"BUY", "SELL"}, current_price \in SlTpPrices :
          LET atr_levels == get_dynamic_sl_tp(c, atr, mult[1], mult[2])
              res == [signal |-> order_type, atr_levels |-> atr_levels,
                      confluences_met |-> 5, total_confluences |-> 5,
                      risk_percent |-> RISK_PERCENT]
              eng == [balance |-> INITIAL_BALANCE, trades |-> <<>>,
                      open_trade |-> NoTrade, be_moves |-> 0]
              bar == [close |-> current_price]
          IN  /\ call' = [method |-> "_check_entry", order_type |-> order_type,
                          current_price |-> current_price, atr_levels |-> atr_levels]
              /\ ret' = check_entry(eng, res, bar, 0).open_trade
    /\ UNCHANGED <<sigvars, lotvars, livevars, btvars, agentvars>>

SpecSlTp == CallInit /\ [][CalculateSlTp \/ BacktestEntry]_vars

\* C12: a BUY position has its stop strictly below and its target strictly
\* above the entry price, a SELL position the reverse, live and in the
\* backtest, for every distance the evaluator emits or the fixed fallback.
C12_StopAndTargetStraddleEntry ==
    (call.method \in {"calculate_sl_tp", "_check_entry"}) =>
        IF call.order_type = "BUY"
        THEN ret.sl < call.current_price /\ call.current_price < ret.tp
        ELSE ret.tp < call.current_price /\ call.current_price < ret.sl

----------------------------------------------------------------------------
(* The live agent: cycles of TradingAgent._tick against a broker whose answers
   may be missing, with the market moving and positions closing in between *)

\* most positions the broker holds at once
MaxPositions == 2

\* bid of the market; the ask is AgentSpread above
MarketLevels == {1994000, 2000000, 2006000}

AgentSpread == 250

\* get_symbol_info: {} on failure
AgentInfos == {InfoEmpty, InfoGold}

\* get_current_price: {} on failure
AgentQuotes == {InfoEmpty, [bid |-> 2000000, ask |-> 2000000 + AgentSpread]}

\* get_account_info: {} on failure; balance in dollars, free_margin in
\* ten-thousandths of a dollar (30 and 10000 dollars)
AgentAccounts ==
    {InfoEmpty,
     [balance |-> 10000, free_margin |-> 300000, leverage |-> 100],
     [balance |-> 10000, free_margin |-> 100000000, leverage |-> 100]}

\* get_account_balance, in dollars
AgentBalances == {10000}

\* the decisions of check_signal on the candles fetched: a BUY with ATR levels,
\* a SELL with the fixed fallback, and NONE
AgentDecisions ==
    { check_signal(ConfigAsShipped, BtWindow(ConfigAsShipped, 250, NoSentiment,
                                             "BULLISH", 1200, TRUE, MTF_EMA_SLOW + 4)),
      check_signal(ConfigAsShipped, BtWindow(ConfigAsShipped, 250, NoSentiment,
                                             "BEARISH", 0, TRUE, MTF_EMA_SLOW + 4)),
      check_signal(ConfigAsShipped, BtWindow(ConfigAsShipped, 250, NoSentiment,
                                             "BULLISH", 0, FALSE, MTF_EMA_SLOW + 5)) }

\* get_candles: an empty frame on failure, else the time of the last closed
\* candle and what check_signal decides on the frame
AgentCandles ==
    {[empty |-> TRUE, time |-> None, decision |-> NoSignal("")]}
    \cup [empty : {FALSE}, time : {1, 2}, decision : AgentDecisions]

\* the text "ai agent", which differs from the literal by case
TextLowerCase == <<"a", "i", " ", "a", "g", "e", "n", "t">>

\* a position as get_open_positions reports it
Position(ticket, type, open_price, sl, tp, comment) ==
    [ticket |-> ticket, symbol |-> SYMBOL, type |-> type, volume |-> 10,
     open_price |-> open_price, current_price |-> open_price, sl |-> sl, tp |-> tp,
     comment |-> comment]

\* what the account holds when the agent starts: nothing, a position somebody
\* else opened (without a comment, or with one that is not the agent's), or one
\* an earlier version opened with the connector's default comment
AgentInitialPositions ==
    { <<>>,
      <<Position(1, "BUY", 2000250, 1997750, 2011250, <<>>)>>,
      <<Position(1, "SELL", 2000000, 2002500, 1989000, TextLowerCase)>>,
      <<Position(1, "BUY", 2000250, 1997750, 2011250, TextAIAgent)>> }

AgentInit ==
    /\ positions \in AgentInitialPositions
    /\ mods = <<>>
    /\ tick = NoTick
    /\ last_signal_time = None
    /\ SigIdle
    /\ LotIdle
    /\ LiveIdle
    /\ BtIdle
    /\ CallIdle

\* the positions of the account after the broker accepted an order: the new
\* one gets the lowest ticket not in use, and positions_get lists by ticket
OpenPosition(ps, order) ==
    LET used == {ps[k].ticket : k \in DOMAIN ps}
        ticket == CHOOSE t \in 1..(Len(ps) + 1) :
                      t \notin used /\ \A u \in 1..(t - 1) : u \in used
        pos == [ticket |-> ticket, symbol |-> SYMBOL, type |-> order.type,
                volume |-> order.volume, open_price |-> order.price,
                current_price |-> order.price, sl |-> order.sl, tp |-> order.tp,
                comment |-> order.comment]
    IN  SubSeq(ps, 1, ticket - 1) \o <<pos>> \o SubSeq(ps, ticket, Len(ps))

\* the end of a cycle
TickEnds(ps, ms, gate, order, time) ==
    /\ positions' = ps
    /\ mods' = ms
    /\ tick' = [gate |-> gate, order |-> order]
    /\ last_signal_time' = time

\* one cycle of _tick, with _manage_open_positions and _execute_trade.  Each
\* query of the broker is answered or fails, independently of the others:
\*   get_open_positions (twice), get_symbol_info (three times), get_candles,
\*   get_account_info, get_current_price (twice), get_account_balance,
\*   and order_send accepts or rejects each modification and the order.
Tick ==
    /\ \/ TickEnds(positions, <<>>, "none", NoOrder, last_signal_time)
       \/ \E ms \in { manage_open_positions(managed, managed_info) :
                        managed \in {positions, <<>>}, managed_info \in AgentInfos } :
          \E accepted \in SUBSET {ms[k].ticket : k \in DOMAIN ms} :
          LET ps1 == ApplyMods(positions, ms, accepted)
          IN  \E can_open \in { can_open_trade(open_positions) :
                                  open_positions \in {ps1, <<>>} } :
              IF ~can_open
              THEN TickEnds(ps1, ms, "none", NoOrder, last_signal_time)
              ELSE \E df \in AgentCandles :
                   IF df.empty
                   THEN TickEnds(ps1, ms, "none", NoOrder, last_signal_time)
                   ELSE IF last_signal_time = df.time
                   THEN TickEnds(ps1, ms, "none", NoOrder, last_signal_time)
                   ELSE IF df.decision.signal = "NONE"
                   THEN TickEnds(ps1, ms, "none", NoOrder, last_signal_time)
                   ELSE \E gate \in { MarginGate(df.decision, account_info, gate_info,
                                                 gate_quote) :
                                        account_info \in AgentAccounts,
                                        gate_info \in AgentInfos,
                                        gate_quote \in AgentQuotes } :
                        IF gate = "failed"
                        THEN TickEnds(ps1, ms, gate, NoOrder, last_signal_time)
                        ELSE \E order \in { execute_trade(df.decision, exec_info, bal,
                                                          exec_quote) :
                                              exec_info \in AgentInfos,
                                              bal \in AgentBalances,
                                              exec_quote \in AgentQuotes } :
                             \E done \in (IF order = NoOrder THEN {FALSE} ELSE BOOLEAN) :
                             LET ps2 == IF done /\ Len(ps1) < MaxPositions
                                        THEN OpenPosition(ps1, order)
                                        ELSE ps1
                             IN  TickEnds(ps2, ms, gate, order, df.time)
    /\ UNCHANGED <<sigvars, lotvars, livevars, btvars, callvars>>

RECURSIVE StillOpen(_, _)
\* the positions left at bid level: the broker closes a BUY at the bid and a
\* SELL at the ask once the stop or the target is reached
StillOpen(ps, level) ==
    IF ps = <<>> THEN <<>>
    ELSE LET pos == Head(ps)
             price == IF pos.type = "BUY" THEN level ELSE level + AgentSpread
             hit == IF pos.type = "BUY" THEN price <= pos.sl \/ price >= pos.tp
                    ELSE price >= pos.sl \/ price <= pos.tp
         IN  (IF hit THEN <<>> ELSE <<[pos EXCEPT !.current_price = price]>>)
                 \o StillOpen(Tail(ps), level)

\* between two cycles the market moves
MarketMove ==
    /\ positions # <<>>
    /\ \E level \in MarketLevels : positions' = StillOpen(positions, level)
    /\ UNCHANGED <<mods, tick, last_signal_time,
                   sigvars, lotvars, livevars, btvars, callvars>>

\* between two cycles somebody closes a position by hand
ManualClose ==
    /\ \E k \in DOMAIN positions :
          positions' = SubSeq(positions, 1, k - 1) \o SubSeq(positions, k + 1, Len(positions))
    /\ UNCHANGED <<mods, tick, last_signal_time,
                   sigvars, lotvars, livevars, btvars, callvars>>

SpecAgent == AgentInit /\ [][Tick \/ MarketMove \/ ManualClose]_vars

\* C13: an order is handed to the executor only if the margin gate passed in
\* that cycle (check_margin answered that free_margin covers the estimated
\* margin times the safety factor), whatever the provider answered to the
\* successive queries.
C13_OrderOnlyAfterMarginGate ==
    tick.order # NoOrder => tick.gate = "passed"

\* the positions that lack the literal "AI Agent" in their comment
Foreign(pos) == ~Contains(pos.comment, TextAIAgent)

\* C20: _manage_open_positions never issues a stop modification for a position
\* whose comment lacks "AI Agent": every modify_trade call of a cycle is for a
\* position carrying the marker, and the stop of a position without it is the
\* same after every step, over any number of cycles.
C20_ForeignStopsUntouched ==
    [][ /\ \A k \in DOMAIN mods' : Contains(mods'[k].comment, TextAIAgent)
        /\ \A k \in DOMAIN positions, j \in DOMAIN positions' :
              (Foreign(positions[k]) /\ positions'[j].ticket = positions[k].ticket)
                  => positions'[j].sl = positions[k].sl ]_vars

\* a cycle moved the stop of an agent's position while a position without the
\* marker, past the break-even distance with its stop below the entry, was left
C20_Witness ==
    /\ \E k \in DOMAIN positions :
          /\ Foreign(positions[k])
          /\ check_break_even(positions[k], InfoGold).action = "move_be"
    /\ \E k \in DOMAIN positions, m \in DOMAIN mods :
          /\ positions[k].ticket = mods[m].ticket
          /\ positions[k].sl = mods[m].sl

\* C22: in one cycle of _manage_open_positions at most one stop modification is
\* issued per position, and break-even has priority: for a position on which
\* check_break_even fires the one modification is the break-even stop and the
\* trailing stop is skipped; otherwise it is the trailing stop.  A cycle is a
\* step that closes no position and moves no price.
C22_BreakEvenBeforeTrailing ==
    [][ (\A k \in DOMAIN positions : \E j \in DOMAIN positions' :
            /\ positions'[j].ticket = positions[k].ticket
            /\ positions'[j].current_price = positions[k].current_price)
        => /\ \A m \in DOMAIN mods', n \in DOMAIN mods' :
                 mods'[m].ticket = mods'[n].ticket => m = n
           /\ \A m \in DOMAIN mods' : \E k \in DOMAIN positions :
                 /\ positions[k].ticket = mods'[m].ticket
                 /\ LET be_result == check_break_even(positions[k], InfoGold)
                        trail_res == check_trailing_stop(positions[k], InfoGold)
                    IN  IF be_result.action = "move_be"
                        THEN mods'[m].reason = "Break Even" /\ mods'[m].sl = be_result.new_sl
                        ELSE /\ mods'[m].reason = "Trailing Stop"
                             /\ trail_res.action = "trail"
                             /\ mods'[m].sl = trail_res.new_sl ]_vars

\* a cycle moved the stop of a position to break-even with the price beyond the
\* trailing activation as well: the trailing stop would fire, and the cycle
\* issued the break-even modification alone
C22_Witness ==
    \E k \in DOMAIN positions :
        /\ Len(mods) = 1
        /\ mods[1].ticket = positions[k].ticket
        /\ mods[1].reason = "Break Even"
        /\ positions[k].sl = mods[1].sl
        /\ check_trailing_stop(positions[k], InfoGold).action = "trail"

----------------------------------------------------------------------------
(* Further claims about Strategy.check_signal, checked under SpecSignal *)

\* C14: a decision other than NONE passes every enabled hard filter whose input
\* is defined: BUY only with the last closed close above the long EMA and SELL
\* only with it below; the ADX not below its threshold; the higher-timeframe
\* trend, when it resolves, BULLISH for BUY and BEARISH for SELL.
C14_HardFiltersPass ==
    Decided =>
        /\ (cfg.EMA_200_ENABLED /\ ~IsNaN(sig_in.ema_200)) =>
              /\ (result.signal = "BUY" => sig_in.close > sig_in.ema_200)
              /\ (result.signal = "SELL" => sig_in.close < sig_in.ema_200)
        /\ (cfg.ADX_ENABLED /\ ~IsNaN(sig_in.adx)) => sig_in.adx >= ADX_MIN_THRESHOLD
        /\ (cfg.MTF_ENABLED /\ sig_in.df_htf.present
              /\ check_higher_timeframe_trend(sig_in.df_htf) # "UNKNOWN") =>
              /\ (result.signal = "BUY"
                    => check_higher_timeframe_trend(sig_in.df_htf) = "BULLISH")
              /\ (result.signal = "SELL"
                    => check_higher_timeframe_trend(sig_in.df_htf) = "BEARISH")

\* the number of conditions the confluence dict of one direction holds in the
\* call of the current state
MetOf(dir) ==
    CountTrue(Conditions(cfg, sig_in,
                         IF sig_in.sentiment.present THEN sig_in.sentiment.rsi_lower
                         ELSE RSI_LOWER,
                         IF sig_in.sentiment.present THEN sig_in.sentiment.rsi_upper
                         ELSE RSI_UPPER,
                         dir))

\* C15: when the BUY and the SELL confluence dicts hold the same number of
\* conditions, the selection prefers BUY: SELL is never the decision.
C15_TiePrefersBuy ==
    (sig_pc = "done" /\ MetOf("BUY") = MetOf("SELL")) => result.signal # "SELL"

----------------------------------------------------------------------------
(* Strategy.check_volatility_filter on the ATR of the last closed bar and the
   50-bar average of the ATR column, in thousandths of a dollar *)

\* ATR of the last closed bar: undefined, zero (a flat series), and values
\* below, at and above 2.5 times the averages
VolAtrs == {NaN, 0, 1, 400, 999, 1000, 1001, 2500, 7500, 7501}

\* df['atr'].rolling(50).mean() at the last closed bar: undefined while fewer
\* than 50 ATR values exist, zero on a flat series
VolAverages == {NaN, 0, 1, 400, 1000, 3000}

\* one call of check_volatility_filter
CheckVolatilityFilter ==
    /\ \E c \in Configs, atr \in VolAtrs, atr_sma_50 \in VolAverages :
          /\ call' = [method |-> "check_volatility_filter",
                      ATR_VOLATILITY_FILTER |-> c.ATR_VOLATILITY_FILTER,
                      atr |-> atr, atr_sma_50 |-> atr_sma_50]
          /\ ret' = [returned |-> TRUE,
                     value |-> check_volatility_filter(c, atr, atr_sma_50)]
    /\ UNCHANGED <<sigvars, lotvars, livevars, btvars, agentvars>>

SpecVol == CallInit /\ [][CheckVolatilityFilter]_vars

\* C16: the filter rejects only when it is enabled, the ATR and its 50-bar
\* average are both defined, the average is not zero and
\* ATR > ATR_MAX_MULTIPLIER x average; with a zero or undefined average the
\* bar is accepted.
C16_RejectsOnlyExcessiveRatio ==
    call.method = "check_volatility_filter" =>
        /\ ~ret.value =>
              /\ call.ATR_VOLATILITY_FILTER
              /\ ~IsNaN(call.atr) /\ ~IsNaN(call.atr_sma_50)
              /\ call.atr_sma_50 # 0
              /\ 10 * call.atr > ATR_MAX_MULTIPLIER * call.atr_sma_50
        /\ (IsNaN(call.atr_sma_50) \/ call.atr_sma_50 = 0) => ret.value

\* the filter enabled on a flat series: ATR zero, average zero, accepted
C16_Witness ==
    /\ call.method = "check_volatility_filter"
    /\ call.ATR_VOLATILITY_FILTER
    /\ call.atr = 0 /\ call.atr_sma_50 = 0
    /\ ret.value

----------------------------------------------------------------------------
(* Further claims about BacktestEngine, checked under SpecBacktest *)

\* C17: a finished run with at least one trade and no negative P&L reports
\* profit_factor = +inf; when every trade is a win closed at its target it
\* reports win_rate 100, no SL closure and as many TP closures as trades.
C17_MetricsWithoutLosses ==
    (bt_pc = "done" /\ trades # <<>>) =>
        /\ (\A k \in DOMAIN trades : trades[k].pnl >= 0) => metrics.profit_factor = Inf
        /\ (\A k \in DOMAIN trades : trades[k].pnl > 0 /\ trades[k].reason = "TP") =>
              /\ metrics.win_rate = 1000
              /\ metrics.sl_closures = 0
              /\ metrics.tp_closures = Len(trades)

\* a finished run all of whose trades, two or more, were won at the target
C17_Witness ==
    /\ bt_pc = "done"
    /\ Len(trades) >= 2
    /\ \A k \in DOMAIN trades : trades[k].pnl > 0 /\ trades[k].reason = "TP"
    /\ metrics.profit_factor = Inf

\* C19: when a run has ended no position is open; a position still open after
\* the last bar is closed at the close of the last bar with reason
\* FIN_BACKTEST; and every position opened gets exactly one trade record: a
\* record is appended exactly when the open position goes, it is that
\* position's, and no two records are of the same entry.
C19_EveryPositionClosedOnce ==
    /\ [](/\ bt_pc \in {"done", "aborted"} => open_trade = NoTrade
          /\ \A j \in DOMAIN trades, k \in DOMAIN trades :
                trades[j].entry_time = trades[k].entry_time => j = k)
    /\ [][ LET was == open_trade # NoTrade
               gone == was /\ (open_trade' = NoTrade
                               \/ open_trade'.entry_time # open_trade.entry_time)
           IN  /\ gone => /\ Len(trades') = Len(trades) + 1
                          /\ SubSeq(trades', 1, Len(trades)) = trades
                          /\ trades'[Len(trades')].entry_time = open_trade.entry_time
               /\ ~gone => trades' = trades
               /\ (was /\ bt_pc' = "done") =>
                      /\ trades'[Len(trades')].reason = "FIN_BACKTEST"
                      /\ trades'[Len(trades')].exit_price = last_close ]_vars

\* a finished run with a position closed at its stop or target on the way and
\* another closed by force at the close of the last bar
C19_Witness ==
    /\ bt_pc = "done"
    /\ open_trade = NoTrade
    /\ Len(trades) >= 2
    /\ trades[1].reason \in {"SL", "TP"}
    /\ trades[Len(trades)].reason = "FIN_BACKTEST"
    /\ trades[Len(trades)].exit_price = last_close
    /\ trades[Len(trades)].entry_time < i - 1

\* C24: the backtest has one position slot.  On every bar of the loop at most
\* one position is closed and at most one opened; a position is opened only
\* when none was open at the start of the bar or the open one was closed on
\* this very bar; a position that stays open is not replaced; and the position
\* closed on a bar was opened on an earlier bar, so that a new position meets
\* its first stop/target test on the bar after its entry.
C24_SinglePositionSlot ==
    [][ (bt_pc = "loop" /\ bt_pc' = "loop") =>
           LET closed == Len(trades') = Len(trades) + 1
               entered == open_trade' # NoTrade /\ open_trade'.entry_time = i
           IN  /\ closed \/ trades' = trades
               /\ entered => (open_trade = NoTrade \/ closed)
               /\ closed => /\ open_trade # NoTrade
                             /\ trades'[Len(trades')].entry_time = open_trade.entry_time
                             /\ trades'[Len(trades')].reason \in {"SL", "TP"}
                             /\ open_trade.entry_time < i
               /\ (open_trade # NoTrade /\ ~closed) =>
                      /\ open_trade' # NoTrade
                      /\ open_trade'.entry_time = open_trade.entry_time ]_vars

\* a position was closed at its stop or target on the bar handled last, and
\* the evaluator opened the next one on that same bar
C24_Witness ==
    /\ bt_pc = "loop"
    /\ Len(trades) >= 1
    /\ trades[Len(trades)].reason \in {"SL", "TP"}
    /\ trades[Len(trades)].entry_time = i - 2
    /\ open_trade # NoTrade
    /\ open_trade.entry_time = i - 1

\* C30: max_win_streak is the length of the longest run of consecutive trades
\* with a positive P&L in the trade log and max_loss_streak the length of the
\* longest run of consecutive trades with a negative P&L.
C30_StreaksAreLongestRuns ==
    (bt_pc = "done" /\ trades # <<>>) =>
        LET runs(won) ==
                { b - a + 1 : a \in DOMAIN trades, b \in DOMAIN trades } \cap
                { n \in 1..Len(trades) :
                    \E a \in 1..(Len(trades) - n + 1) :
                       \A k \in a..(a + n - 1) :
                          IF won THEN trades[k].pnl > 0 ELSE trades[k].pnl < 0 }
        IN  /\ metrics.max_win_streak = SetMax(runs(TRUE) \cup {0})
            /\ metrics.max_loss_streak = SetMax(runs(FALSE) \cup {0})

----------------------------------------------------------------------------
(* Strategy._calculate_rsi on short close series *)

\* longest series
MaxRsiLen == 4

\* closes, in dollars
RsiCloses == {1999, 2000, 2002}

\* the period argument; the series reach past it
RsiPeriods == {2, 3}

RsiSeries == UNION {[1..n -> RsiCloses] : n \in 0..MaxRsiLen}

\* one call of _calculate_rsi
CalculateRsi ==
    /\ \E prices \in RsiSeries, period \in RsiPeriods :
          /\ call' = [method |-> "_calculate_rsi", prices |-> prices, period |-> period]
          /\ ret' = [returned |-> TRUE, value |-> calculate_rsi(prices, period)]
    /\ UNCHANGED <<sigvars, lotvars, livevars, btvars, agentvars>>

SpecRsi == CallInit /\ [][CalculateRsi]_vars

\* C18: for any finite close series _calculate_rsi returns, for every row, a
\* value in [0, 100]; where the average loss is exactly zero the value is 100,
\* and where the average gain is zero with a positive average loss it is 0.
C18_RsiInRange ==
    call.method = "_calculate_rsi" =>
        /\ DOMAIN ret.value = DOMAIN call.prices
        /\ \A t \in DOMAIN ret.value :
              /\ 0 <= ret.value[t] /\ ret.value[t] <= 100000
              /\ (t >= call.period /\ EwmSum(call.prices, t, call.period, FALSE) = 0)
                    => ret.value[t] = 100000
              /\ (t >= call.period /\ EwmSum(call.prices, t, call.period, TRUE) = 0
                    /\ EwmSum(call.prices, t, call.period, FALSE) > 0)
                    => ret.value[t] = 0

\* a series with a row past the period at which the average loss is zero and
\* the value 100, and a later row with a value strictly inside the range
C18_Witness ==
    /\ call.method = "_calculate_rsi"
    /\ \E t \in DOMAIN ret.value :
          t >= call.period /\ EwmSum(call.prices, t, call.period, FALSE) = 0
          /\ ret.value[t] = 100000
    /\ \E t \in DOMAIN ret.value :
          t >= call.period /\ 0 < ret.value[t] /\ ret.value[t] < 100000

----------------------------------------------------------------------------
(* A live position under repeated management passes: break-even first, the
   trailing stop when break-even does not fire (TradingAgent._manage_open_positions
   for one position of the agent) *)

\* instruments by precision: gold to two decimals, an instrument quoted to
\* three decimals and one quoted to one decimal (point = 10^-digits)
BeInfos == {InfoGold, InfoFine, [InfoGold EXCEPT !.point = 100, !.digits = 1]}

\* the spread the broker reports, in points
BeSpreads == {0, 25, 250}

\* where the current price can stand relative to the open price: around the
\* break-even and the trailing distances of each instrument
BeOffsets == {0, 249, 250, 550, 700, 2499, 2500, 5500, 7000, 25000, 55000, 70000}

BeInit ==
    /\ CallIdle
    /\ AgentIdle
    /\ symbol_info \in BeInfos
    /\ \E type \in {"BUY", "SELL"} :
       \E open_price \in {OpenPrice0} \cup (IF symbol_info.digits = 3 THEN {OpenPrice0 + 5} ELSE {}) :
       \E sl \in {0, IF type = "BUY" THEN open_price - STOP_LOSS_PIPS * symbol_info.point * 10
                      ELSE open_price + STOP_LOSS_PIPS * symbol_info.point * 10} :
          position = [type |-> type, open_price |-> open_price,
                      current_price |-> open_price, sl |-> sl]
    /\ trail_result = NoTrailResult
    /\ SigIdle
    /\ LotIdle
    /\ BtIdle

\* one pass of the loop body over the position: the broker reports the price
\* and the spread, check_break_even is called and a returned new_sl sent to
\* modify_trade; check_trailing_stop is called only when break-even returned none.
\* call.moved records that the stop has been set to a new_sl of check_break_even.
ManagePosition ==
    /\ position.type # "NONE"
    /\ \E offset \in BeOffsets, up \in BOOLEAN, spread \in BeSpreads, accepted \in BOOLEAN :
          LET price == IF up THEN position.open_price + offset ELSE position.open_price - offset
              info == [symbol_info EXCEPT !.spread = spread]
              pos == [position EXCEPT !.current_price = price]
              be_result == check_break_even(pos, info)
              trail == IF be_result.action = "move_be" THEN NoTrailResult
                       ELSE check_trailing_stop(pos, info)
              moved == call.method = "check_break_even" /\ call.moved
          IN  /\ symbol_info' = info
              /\ ret' = be_result
              /\ trail_result' = trail
              /\ call' = [method |-> "check_break_even",
                          moved |-> moved \/ (be_result.action = "move_be" /\ accepted)]
              /\ position' = IF be_result.action = "move_be" /\ accepted
                             THEN [pos EXCEPT !.sl = be_result.new_sl]
                             ELSE IF trail.action = "trail" /\ accepted
                             THEN [pos EXCEPT !.sl = trail.new_sl]
                             ELSE pos
    /\ UNCHANGED <<sigvars, lotvars, btvars, agentvars>>

SpecBreakEven == BeInit /\ [][ManagePosition]_vars

\* C21: once check_break_even has returned move_be for the position and its
\* stop has been set to the returned new_sl, every later check_break_even call
\* on the position returns action none, at any price and spread, for every
\* instrument precision, for BUY and for SELL.
C21_BreakEvenOneWay ==
    [][ (call.method = "check_break_even" /\ call.moved) => ret'.action = "none" ]_vars

\* a BUY whose stop was moved to break-even at an earlier pass, checked again
\* with the price at or beyond the break-even distance: the answer is none
C21_Witness ==
    /\ call.method = "check_break_even"
    /\ call.moved
    /\ ret.action = "none"
    /\ position.type = "BUY"
    /\ position.sl > position.open_price
    /\ position.current_price >=
          position.open_price + BREAK_EVEN_PIPS * symbol_info.point * 10

----------------------------------------------------------------------------
(* BacktestEngine._manage_trade on one bar *)

\* self.open_trade at the call: as _check_entry made it with an ATR of 1.200
\* (stop 2.400 and target 6.000 from the entry), or with the stop at break-even
ManagedTrades ==
    { [type |-> type, entry_price |-> BtPrice0, lot_size |-> 10, entry_time |-> 70,
       sl_distance |-> 2400, confluences |-> 5, total_confluences |-> 6,
       risk_percent |-> 50, be_activated |-> armed,
       sl |-> IF type = "BUY" THEN (IF armed THEN BtPrice0 + 100 ELSE BtPrice0 - 2400)
              ELSE (IF armed THEN BtPrice0 - 100 ELSE BtPrice0 + 2400),
       tp |-> IF type = "BUY" THEN BtPrice0 + 6000 ELSE BtPrice0 - 6000] :
      type \in {"BUY", "SELL"}, armed \in BOOLEAN }

\* how far the low and the high of the bar lie from the entry price: at it, at
\* and beyond the stops, the break-even distance and the targets
BarReaches == {0, 100, 2400, 2500, 6000, 7000}

\* one call of _manage_trade
ManageTrade ==
    /\ \E trade \in ManagedTrades, below \in BarReaches, above \in BarReaches, up \in BOOLEAN :
          LET bar == [low |-> BtPrice0 - below, close |-> BtPrice0, high |-> BtPrice0 + above]
              eng == [balance |-> INITIAL_BALANCE, trades |-> <<>>, open_trade |-> trade,
                      be_moves |-> 0]
          IN  /\ call' = [method |-> "_manage_trade", trade |-> trade, bar |-> bar]
              /\ ret' = manage_trade(eng, bar, up)
    /\ UNCHANGED <<sigvars, lotvars, livevars, btvars, agentvars>>

SpecManageTrade == CallInit /\ [][ManageTrade]_vars

\* C23: when the range of the bar touches both the stop and the target of the
\* open position, the position is closed at the stop price with reason SL;
\* break-even is armed only on a bar that touches neither, and the bar on which
\* it is armed leaves the position open.
C23_StopBeforeTarget ==
    call.method = "_manage_trade" =>
        LET trade == call.trade
            bar == call.bar
            stop_touched == IF trade.type = "BUY" THEN bar.low <= trade.sl
                            ELSE bar.high >= trade.sl
            target_touched == IF trade.type = "BUY" THEN bar.high >= trade.tp
                              ELSE bar.low <= trade.tp
            closed == ret.open_trade = NoTrade
            armed == ~closed /\ ret.open_trade.be_activated /\ ~trade.be_activated
        IN  /\ (stop_touched /\ target_touched) =>
                   /\ closed
                   /\ Len(ret.trades) = 1
                   /\ ret.trades[1].reason = "SL"
                   /\ ret.trades[1].exit_price = trade.sl
            /\ (stop_touched \/ target_touched) =>
                   closed /\ ret.be_moves = 0
            /\ ret.be_moves > 0 =>
                   /\ armed
                   /\ ret.trades = <<>>
                   /\ ~stop_touched /\ ~target_touched

\* a bar whose range spans the stop and the target of a BUY, closed at the stop
C23_Witness ==
    /\ call.method = "_manage_trade"
    /\ call.trade.type = "BUY"
    /\ call.bar.low <= call.trade.sl
    /\ call.bar.high >= call.trade.tp
    /\ ret.open_trade = NoTrade
    /\ ret.trades[1].reason = "SL"

----------------------------------------------------------------------------
(* BacktestEngine.run on a frame and on the same frame cut after k bars.  The
   frame is given by its bars past the warm-up; the warm-up bars all close at
   BtPrice0.  H4 bars hold four H1 bars each. *)

\* how many bars past min_bars the replayed frame has at most
MaxReplayBars == 3

\* config.py: MTF_EMA_FAST
MTF_EMA_FAST == 21

\* a bar with the facts check_signal derives for the window ending at it: flat,
\* a drop, a rise that closes higher, a spike; structure formed on the side of
\* the trend, ATR 1.200
ReplayBars ==
    { [low |-> BtPrice0 - below, close |-> BtPrice0 + rise, high |-> BtPrice0 + above,
       trend |-> trend, atr |-> 1200] :
      below \in {0}, rise \in {0}, above \in {0, 9500}, trend \in {"BULLISH", "BEARISH"} }
    \cup
    { [low |-> BtPrice0 - 4000, close |-> BtPrice0, high |-> BtPrice0,
       trend |-> trend, atr |-> 1200] : trend \in {"BULLISH", "BEARISH"} }
    \cup
    { [low |-> BtPrice0, close |-> BtPrice0 + 1005, high |-> BtPrice0 + 2500,
       trend |-> trend, atr |-> 1200] : trend \in {"BULLISH", "BEARISH"} }

ReplayFrames == UNION { [1..n -> ReplayBars] : n \in 1..MaxReplayBars }

\* _resample_to_h4, 'close': 'last'.  The close of H4 bar r past the warm-up: that
\* of the last bar of df in it.  Bar j of df lies in H4 bar (shift + j - 1) div 4,
\* shift being the number of warm-up bars that share H4 bar 0.
H4Close(df, shift, r) ==
    df[SetMax({j \in DOMAIN df : (shift + j - 1) \div 4 = r})].close

RECURSIVE Ewm(_, _, _, _)
\* df_htf['close'].ewm(span, adjust=False).mean() at H4 bar r, as the distance
\* from the warm-up level BtPrice0, times (span + 1)^(r + 1)
Ewm(df, shift, r, span) ==
    IF r < 0 THEN 0
    ELSE 2 * (H4Close(df, shift, r) - BtPrice0) * Power(span + 1, r)
         + (span - 1) * Ewm(df, shift, r - 1, span)

\* the frame whose trend is read from its last row instead of the last closed one
HtfWindow_LastRow(c, df, shift, j) ==
    LET last == (shift + j - 1) \div 4
    IN  IF ~c.MTF_ENABLED THEN BtHtfFrame(c, 0)
        ELSE [present |-> TRUE,
              len |-> (BtMinBars(c) - shift + 3) \div 4 + last + 1,
              ema_fast |-> Ewm(df, shift, last, MTF_EMA_FAST)
                              * Power(MTF_EMA_SLOW + 1, last + 1),
              ema_slow |-> Ewm(df, shift, last, MTF_EMA_SLOW)
                              * Power(MTF_EMA_FAST + 1, last + 1)]

\* run, lines 116-124: df_h4[df_h4['time'] <= current_time] at bar j of df, with
\* df_h4 resampled from the whole df.  Its last row is the H4 bar that holds bar
\* j; ema_fast and ema_slow are the values of row -2, on a common scale.
HtfWindow(c, df, shift, j) ==
    LET last == (shift + j - 1) \div 4
    IN  IF ~c.MTF_ENABLED THEN BtHtfFrame(c, 0)
        ELSE [present |-> TRUE,
              len |-> (BtMinBars(c) - shift + 3) \div 4 + last + 1,
              ema_fast |-> Ewm(df, shift, last - 1, MTF_EMA_FAST)
                              * Power(MTF_EMA_SLOW + 1, last),
              ema_slow |-> Ewm(df, shift, last - 1, MTF_EMA_SLOW)
                              * Power(MTF_EMA_FAST + 1, last)]

\* one iteration of the loop of run on bar j of df, on the engine state
\* eng = [balance, trades, open_trade, be_moves, equity_curve]
run_bar(eng, c, sent, df, shift, j, up) ==
    LET current_bar == df[j]
        idx == BtMinBars(c) + j - 1
        window == [BtWindow(c, idx + 1, sent, current_bar.trend, current_bar.atr, TRUE, 0)
                      EXCEPT !.df_htf = HtfWindow(c, df, shift, j)]
        eng1 == IF eng.open_trade # NoTrade THEN manage_trade(eng, current_bar, up) ELSE eng
        eng2 == IF eng1.open_trade = NoTrade
                THEN check_entry(eng1, check_signal(c, window), current_bar, idx)
                ELSE eng1
    IN  [eng2 EXCEPT !.equity_curve =
                        Append(eng.equity_curve,
                               eng2.balance + unrealized_pnl(eng2.open_trade, current_bar))]

ReplayInit ==
    /\ CallIdle
    /\ AgentIdle
    /\ cfg = ConfigAsShipped
    /\ simulated_sentiment = NoSentiment
    /\ bt_pc = "created"
    /\ bar_count = 0
    /\ i = 0
    /\ balance = INITIAL_BALANCE
    /\ equity_curve = <<>>
    /\ trades = <<>>
    /\ open_trade = NoTrade
    /\ metrics = NoMetrics
    /\ last_close = 0
    /\ be_moves = 0
    /\ SigIdle
    /\ LotIdle
    /\ LiveIdle

\* run(df) and run(df.iloc[:min_bars + k]) up to their loops.  ret is the second
\* engine: loop its state in the loop, final its state after run, once done.
ReplayStart ==
    /\ bt_pc = "created"
    /\ \E df \in ReplayFrames, shift \in {0, 2, 3} : \E k \in 1..Len(df) :
          LET eng == [balance |-> INITIAL_BALANCE, trades |-> <<>>, open_trade |-> NoTrade,
                      be_moves |-> 0, equity_curve |-> <<INITIAL_BALANCE>>]
          IN  /\ call' = [method |-> "run", df |-> df, shift |-> shift, k |-> k]
              /\ ret' = [loop |-> eng, final |-> eng, done |-> FALSE]
              /\ bar_count' = BtMinBars(cfg) + Len(df)
    /\ i' = BtMinBars(cfg)
    /\ bt_pc' = "loop"
    /\ balance' = INITIAL_BALANCE
    /\ equity_curve' = <<INITIAL_BALANCE>>
    /\ trades' = <<>>
    /\ open_trade' = NoTrade
    /\ UNCHANGED <<cfg, simulated_sentiment, metrics, last_close, be_moves,
                   sigvars, lotvars, livevars, agentvars>>

\* both runs handle bar j; the second leaves its loop after bar k, closes the
\* open position at the close of that bar and is done
ReplayBar ==
    /\ bt_pc = "loop"
    /\ i < bar_count
    /\ \E up \in BOOLEAN, up_final \in BOOLEAN :
          LET j == i - BtMinBars(cfg) + 1
              eng == [balance |-> balance, trades |-> trades, open_trade |-> open_trade,
                      be_moves |-> be_moves, equity_curve |-> equity_curve]
              first == run_bar(eng, cfg, simulated_sentiment, call.df, call.shift, j, up)
              second == run_bar(ret.loop, cfg, simulated_sentiment,
                                SubSeq(call.df, 1, call.k), call.shift, j, up)
          IN  /\ balance' = first.balance
              /\ trades' = first.trades
              /\ open_trade' = first.open_trade
              /\ be_moves' = first.be_moves
              /\ equity_curve' = first.equity_curve
              /\ last_close' = call.df[j].close
              /\ ret' = IF j > call.k THEN ret
                        ELSE [loop |-> second,
                              final |-> IF j = call.k /\ second.open_trade # NoTrade
                                        THEN close_trade(second, call.df[j].close,
                                                         "FIN_BACKTEST", up_final)
                                        ELSE second,
                              done |-> j = call.k]
    /\ i' = i + 1
    /\ UNCHANGED <<call, cfg, simulated_sentiment, bt_pc, bar_count, metrics,
                   sigvars, lotvars, livevars, agentvars>>

SpecReplay == ReplayInit /\ [][ReplayStart \/ ReplayBar \/ RunFinish]_vars

\* C25: for a frame and the frame cut after k bars past the warm-up, run has the
\* same open position, balance, trade records and equity samples on both
\* through bar k; the cut run then ends with that state, changed only by the
\* forced close of the position open at bar k, and the longer run extends it.
C25_ReplayWithoutLookAhead ==
    (call.method = "run" /\ bt_pc = "loop") =>
        LET handled == i - BtMinBars(cfg)
            same(eng) == /\ eng.open_trade = open_trade
                         /\ eng.balance = balance
                         /\ eng.trades = trades
                         /\ eng.equity_curve = equity_curve
        IN  /\ handled <= call.k => same(ret.loop)
            /\ ret.done <=> handled >= call.k
            /\ ret.done =>
                   /\ SubSeq(equity_curve, 1, call.k + 1) = ret.loop.equity_curve
                   /\ SubSeq(trades, 1, Len(ret.loop.trades)) = ret.loop.trades
                   /\ ret.final.equity_curve = ret.loop.equity_curve
                   /\ ret.final.open_trade = NoTrade
                   /\ IF ret.loop.open_trade = NoTrade THEN ret.final = ret.loop
                      ELSE /\ Len(ret.final.trades) = Len(ret.loop.trades) + 1
                           /\ SubSeq(ret.final.trades, 1, Len(ret.loop.trades))
                                  = ret.loop.trades
                           /\ LET forced == ret.final.trades[Len(ret.final.trades)]
                              IN  /\ forced.reason = "FIN_BACKTEST"
                                  /\ forced.entry_time = ret.loop.open_trade.entry_time
                                  /\ forced.exit_price = call.df[call.k].close

\* the frame goes on after bar k with a close that changes the H4 bar holding
\* bar k; at bar k both runs hold the same position, opened as a BUY under a
\* bullish H4 trend read from an H4 bar completed past the warm-up
C25_Witness ==
    /\ call.method = "run"
    /\ bt_pc = "loop"
    /\ i - BtMinBars(cfg) = call.k
    /\ call.k < Len(call.df)
    /\ (call.shift + call.k - 1) \div 4 = (call.shift + call.k) \div 4
    /\ call.df[call.k + 1].close # call.df[call.k].close
    /\ open_trade # NoTrade
    /\ open_trade.type = "BUY"
    /\ ret.loop.open_trade = open_trade
    /\ ret.done

----------------------------------------------------------------------------
(* The liquidity condition of check_signal on frames whose last closed bar
   follows LIQUIDITY_LOOKBACK + 1 earlier bars *)

\* a bar before the last closed one: quiet, or with a spike of its high, of its
\* low or of both
QuietBars ==
    { [high |-> BtPrice0 + up_by, low |-> BtPrice0 - down_by, close |-> BtPrice0] :
      up_by \in {100, 500}, down_by \in {100, 500} }

\* the last closed bar: quiet; its high at, above and far above the quiet
\* highs, closing back inside or beyond; the same for its low; both at once
ClosedBars ==
    { [high |-> BtPrice0 + 100, low |-> BtPrice0 - 100, close |-> BtPrice0],
      [high |-> BtPrice0 + 300, low |-> BtPrice0 - 100, close |-> BtPrice0],
      [high |-> BtPrice0 + 300, low |-> BtPrice0 - 100, close |-> BtPrice0 + 200],
      [high |-> BtPrice0 + 600, low |-> BtPrice0 - 100, close |-> BtPrice0 + 400],
      [high |-> BtPrice0 + 100, low |-> BtPrice0 - 300, close |-> BtPrice0],
      [high |-> BtPrice0 + 100, low |-> BtPrice0 - 300, close |-> BtPrice0 - 200],
      [high |-> BtPrice0 + 100, low |-> BtPrice0 - 600, close |-> BtPrice0 - 400],
      [high |-> BtPrice0 + 300, low |-> BtPrice0 - 300, close |-> BtPrice0] }

\* frames of LIQUIDITY_LOOKBACK + 3 bars: the first bar lies before the lookback
\* of the last closed bar and the second is the oldest inside it
SweepFrames ==
    { [t \in 1..(LIQUIDITY_LOOKBACK + 3) |->
          IF t = 1 THEN outside
          ELSE IF t = 2 THEN oldest
          ELSE IF t = LIQUIDITY_LOOKBACK + 2 THEN closed
          ELSE [high |-> BtPrice0 + 100, low |-> BtPrice0 - 100, close |-> BtPrice0]] :
      outside \in QuietBars, oldest \in QuietBars, closed \in ClosedBars }

\* check_signal up to the two confluence dicts, on a frame with its indicator
\* columns: last = df.iloc[-2]
CheckLiquidity ==
    /\ \E df \in SweepFrames :
          LET last == Len(df) - 1
              in == [BtWindow(ConfigAsShipped, Len(df), NoSentiment, "BULLISH", 1200, TRUE, 0)
                        EXCEPT !.sweep_high = detect_sweep_high(df)[last],
                               !.sweep_low = detect_sweep_low(df)[last]]
              buy_conditions == Conditions(ConfigAsShipped, in, RSI_LOWER, RSI_UPPER, "BUY")
              sell_conditions == Conditions(ConfigAsShipped, in, RSI_LOWER, RSI_UPPER, "SELL")
          IN  /\ call' = [method |-> "check_signal", df |-> df]
              /\ ret' = [buy |-> buy_conditions["liquidity"],
                         sell |-> sell_conditions["liquidity"]]
    /\ UNCHANGED <<sigvars, lotvars, livevars, btvars, agentvars>>

SpecLiquidity == CallInit /\ [][CheckLiquidity]_vars

\* C28 as stated: the liquidity condition of the BUY set holds iff the last
\* closed bar is a bullish sweep (its high exceeds the highest high of the
\* preceding LIQUIDITY_LOOKBACK bars and its close is below that high), and
\* that of the SELL set iff it is a bearish sweep against the lowest low.
C28_BuyOnSweepOfHighs ==
    call.method = "check_signal" =>
        LET df == call.df
            t == Len(df) - 1
            before == (t - LIQUIDITY_LOOKBACK)..(t - 1)
            bullish_sweep == /\ \A j \in before : df[t].high > df[j].high
                             /\ \E j \in before : df[t].close < df[j].high
            bearish_sweep == /\ \A j \in before : df[t].low < df[j].low
                             /\ \E j \in before : df[t].close > df[j].low
        IN  /\ ret.buy <=> bullish_sweep
            /\ ret.sell <=> bearish_sweep

\* C28, amended: the liquidity condition of the BUY set holds iff the last
\* closed bar swept the structural low (its low is under the lowest low of the
\* preceding LIQUIDITY_LOOKBACK bars and its close above that low), and that of
\* the SELL set iff it swept the structural high (its high exceeds the highest
\* high of those bars and its close is below that high).
C28_BuyOnSweepOfLows ==
    call.method = "check_signal" =>
        LET df == call.df
            t == Len(df) - 1
            before == (t - LIQUIDITY_LOOKBACK)..(t - 1)
            sweep_of_highs == /\ \A j \in before : df[t].high > df[j].high
                              /\ \E j \in before : df[t].close < df[j].high
            sweep_of_lows == /\ \A j \in before : df[t].low < df[j].low
                             /\ \E j \in before : df[t].close > df[j].low
        IN  /\ ret.buy <=> sweep_of_lows
            /\ ret.sell <=> sweep_of_highs

\* the last closed bar went under the lows of the bars before it and closed
\* back above them, while a bar older than the lookback had a lower low: the
\* BUY set's condition holds and the SELL set's does not
C28_Witness ==
    /\ call.method = "check_signal"
    /\ call.df[1].low < call.df[Len(call.df) - 1].low
    /\ ret.buy
    /\ ~ret.sell

----------------------------------------------------------------------------
(* The fractal columns on frames a little longer than two lookbacks *)

\* a bar of such a frame: quiet, or with its high or its low pushed out by one
\* or two steps
FractalBars ==
    { [high |-> BtPrice0 + 100, low |-> BtPrice0 - 100, close |-> BtPrice0] }
    \cup { [high |-> BtPrice0 + 100 + d, low |-> BtPrice0 - 100, close |-> BtPrice0] :
            d \in {200, 400} }
    \cup { [high |-> BtPrice0 + 100, low |-> BtPrice0 - 100 - d, close |-> BtPrice0] :
            d \in {200, 400} }

\* frames of 2 * fractal_lookback + 2 bars.  Bars 6 and 7 are the only ones with
\* fractal_lookback bars on both sides; bars 1 and 12 are the farthest bars
\* compared with them; bar 5 or bar 8, next to them and too close to an end,
\* may carry the extreme of the frame.
FractalFrames ==
    { [t \in 1..(2 * fractal_lookback + 2) |->
          CASE t = 1 -> first
            [] t = fractal_lookback /\ edge = "near_start" ->
                 [high |-> BtPrice0 + 700, low |-> BtPrice0 - 100, close |-> BtPrice0]
            [] t = fractal_lookback + 1 -> left
            [] t = fractal_lookback + 2 -> right
            [] t = fractal_lookback + 3 /\ edge = "near_end" ->
                 [high |-> BtPrice0 + 100, low |-> BtPrice0 - 700, close |-> BtPrice0]
            [] t = 2 * fractal_lookback + 2 -> final
            [] OTHER -> [high |-> BtPrice0 + 100, low |-> BtPrice0 - 100,
                         close |-> BtPrice0]] :
      first \in {b \in FractalBars : b.high < BtPrice0 + 500 /\ b.low > BtPrice0 - 500},
      left \in FractalBars, right \in FractalBars,
      final \in {b \in FractalBars : b.high # BtPrice0 + 300 /\ b.low # BtPrice0 - 300},
      edge \in {"none", "near_start", "near_end"} }

\* calculate_indicators, the two fractal columns
DetectFractals ==
    /\ \E df \in FractalFrames :
          /\ call' = [method |-> "_detect_fractal_high", df |-> df]
          /\ ret' = [fractal_high |-> detect_fractal_high(df),
                     fractal_low |-> detect_fractal_low(df)]
    /\ UNCHANGED <<sigvars, lotvars, livevars, btvars, agentvars>>

SpecFractal == CallInit /\ [][DetectFractals]_vars

\* C29: bar i (counted from 0) is a confirmed high fractal iff
\* N <= i < len - N and its high is strictly greater than the high of each of
\* the N bars before it and the N bars after it; a bar within N of either end
\* is never confirmed; the low fractals obey the same rule on lows.
C29_FractalStrictlyBeyondNeighbours ==
    call.method = "_detect_fractal_high" =>
        LET df == call.df
            N == fractal_lookback
            inner(t) == N <= t - 1 /\ t - 1 < Len(df) - N
            neighbours(t) == ((t - N)..(t + N)) \ {t}
        IN  \A t \in 1..Len(df) :
              /\ ret.fractal_high[t] # NaN <=>
                    (inner(t) /\ \A j \in neighbours(t) : df[j].high < df[t].high)
              /\ ret.fractal_low[t] # NaN <=>
                    (inner(t) /\ \A j \in neighbours(t) : df[j].low > df[t].low)
              /\ (t <= N \/ t > Len(df) - N) =>
                    (ret.fractal_high[t] = NaN /\ ret.fractal_low[t] = NaN)

\* bar 6 is a confirmed high fractal and bar 7 a confirmed low fractal, the
\* last bar has the highest high of the frame and is not confirmed, and bar 7
\* is not a high fractal because bar 6 is higher
C29_Witness ==
    /\ call.method = "_detect_fractal_high"
    /\ ret.fractal_high[6] = call.df[6].high
    /\ ret.fractal_low[7] = call.df[7].low
    /\ \A t \in 1..11 : call.df[12].high > call.df[t].high
    /\ ret.fractal_high[12] = NaN
    /\ ret.fractal_high[7] = NaN

====
